---- MODULE Spec2Model ----
(***************************************************************************)
(* A model of the goqtt MQTT 3.1.1 broker: the wire codec (byte level),    *)
(* the per-connection handler of the TCP server, the session registry,     *)
(* the subscription trie, the retained store and the QoS flow tables.      *)
(*                                                                         *)
(* Bytes are naturals 0..255, a Go []byte or string is a sequence of       *)
(* bytes.  Go offsets are 0-based: Go's raw[o] is At(raw, o), Go's         *)
(* raw[a:b] is Slice(raw, a, b).                                           *)
(***************************************************************************)
EXTENDS Integers, Sequences, FiniteSets, TLC

\* --------------------------------------------------------------------------
\* Bytes and strings
\* --------------------------------------------------------------------------

At(raw, o) == raw[o + 1]

Slice(raw, a, b) == SubSeq(raw, a + 1, b)

\* raw[0] & 0xF0
HighNibble(b) == (b \div 16) * 16

\* raw[0] & 0x0F
LowNibble(b) == b % 16

\* (b & mask) != 0 for a one-bit mask 2^i
Bit(b, i) == (b \div (2 ^ i)) % 2 = 1

\* binary.BigEndian.Uint16(raw[o : o+2])
Uint16(raw, o) == At(raw, o) * 256 + At(raw, o + 1)

\* binary.BigEndian.PutUint16
PutUint16(v) == <<(v \div 256) % 256, v % 256>>

\* a string with its two-byte length prefix
Str(s) == PutUint16(Len(s)) \o s

\* the characters the model's strings are made of
Ch == [Slash |-> 47, Plus |-> 43, Hash |-> 35, Bang |-> 33, Nul |-> 0, Ctl |-> 7,
       a |-> 97, b |-> 98, M |-> 77, Q |-> 81, T |-> 84, I |-> 73, s |-> 115,
       u |-> 117, p |-> 112, x |-> 120, y |-> 121, w |-> 119]

\* --------------------------------------------------------------------------
\* Control packet types and CONNACK return codes
\* --------------------------------------------------------------------------

CONNECT == 16
CONNACK == 32
PUBLISH == 48
PUBACK == 64
PUBREC == 80
PUBREL == 96
PUBCOMP == 112
SUBSCRIBE == 128
SUBACK == 144
UNSUBSCRIBE == 160
UNSUBACK == 176
PINGREQ == 192
PINGRESP == 208
DISCONNECT == 224

ConnectionAccepted == 0
UnacceptableProtocolVersion == 1
IdentifierRejected == 2
ServerUnavailable == 3
BadUsernameOrPassword == 4
NotAuthorized == 5

QoSAtMostOnce == 0
QoSAtLeastOnce == 1
QoSExactlyOnce == 2

SubackFailure == 128

NewConnAck(sessionPresent, returnCode) ==
  <<CONNACK, 2, IF sessionPresent THEN 1 ELSE 0, returnCode>>

\* --------------------------------------------------------------------------
\* Results of decoding
\* --------------------------------------------------------------------------

\* an error value returned by a Parse method; err is the er.Err* sentinel
Err(e) == [kind |-> "err", err |-> e]

\* a run-time panic (slice bounds out of range) inside a Parse method
Panic == [kind |-> "panic"]

\* the absent value of an optional field (a nil pointer)
Nil == <<"nil">>

\* --------------------------------------------------------------------------
\* CONNECT
\* --------------------------------------------------------------------------

\* every byte of the client id is one of 0-9, a-z, A-Z
AllowedChar(c) ==
  \/ (c >= 48 /\ c <= 57)
  \/ (c >= 97 /\ c <= 122)
  \/ (c >= 65 /\ c <= 90)

ValidateClientID(clientID, cleanSession) ==
  IF Len(clientID) = 0
    THEN IF ~cleanSession THEN "ErrEmptyAndCleanSessionClientID"
                          ELSE "ErrEmptyClientID"
  ELSE IF Len(clientID) > 23 THEN "ErrClientIDLengthExceed"
  ELSE IF \E i \in 1..Len(clientID) : ~AllowedChar(clientID[i])
    THEN "ErrInvalidCharsClientID"
  ELSE "nil"

ProtocolMQTT == <<Ch.M, Ch.Q, Ch.T, Ch.T>>

\* the username and password part of ConnectPacket.Parse; cp holds the fields
\* decoded so far, offset is where the will fields (if any) ended
ConnectParseCredentials(raw, cp, offset) ==
  IF ~cp.UsernameFlag /\ cp.PasswordFlag THEN Err("ErrPasswordWithoutUsername")
  ELSE
    LET userEnd == IF cp.UsernameFlag /\ offset + 2 <= Len(raw)
                     THEN offset + 2 + Uint16(raw, offset) ELSE offset
    IN
    IF cp.UsernameFlag /\ offset + 2 > Len(raw) THEN Err("ErrMalformedUsernameField")
    ELSE IF cp.UsernameFlag /\ userEnd > Len(raw) THEN Err("ErrMalformedUsernameField")
    ELSE
      LET username == IF cp.UsernameFlag THEN Slice(raw, offset + 2, userEnd) ELSE Nil
      IN
      IF cp.PasswordFlag /\ userEnd + 2 > Len(raw) THEN Err("ErrMalformedPasswordField")
      ELSE IF cp.PasswordFlag /\ userEnd + 2 + Uint16(raw, userEnd) > Len(raw)
        THEN Err("ErrMalformedPasswordField")
      ELSE
        LET password == IF cp.PasswordFlag
                          THEN Slice(raw, userEnd + 2, userEnd + 2 + Uint16(raw, userEnd))
                          ELSE Nil
        IN [kind |-> "pkt", Type |-> CONNECT,
            Connect |-> [cp EXCEPT !.Username = username, !.Password = password]]

\* the will part of ConnectPacket.Parse
ConnectParseWill(raw, cp, offset) ==
  IF ~cp.WillFlag THEN ConnectParseCredentials(raw, cp, offset)
  ELSE IF offset + 2 > Len(raw) THEN Err("ErrInvalidConnPacket")
  ELSE
    LET topicEnd == offset + 2 + Uint16(raw, offset) IN
    IF topicEnd > Len(raw) THEN Err("ErrInvalidConnPacket")
    ELSE IF topicEnd + 2 > Len(raw) THEN Err("ErrInvalidConnPacket")
    ELSE
      LET msgEnd == topicEnd + 2 + Uint16(raw, topicEnd) IN
      IF msgEnd > Len(raw) THEN Err("ErrInvalidConnPacket")
      ELSE ConnectParseCredentials(raw,
             [cp EXCEPT !.WillTopic = Slice(raw, offset + 2, topicEnd),
                        !.WillMessage = Slice(raw, topicEnd + 2, msgEnd)],
             msgEnd)

\* ConnectPacket.Parse; uuid is the identifier uuid.NewString() would return
ConnectPacketParse(raw, uuid) ==
  IF Len(raw) < 10 THEN Err("ErrInvalidConnPacket")
  ELSE IF HighNibble(At(raw, 0)) # CONNECT THEN Err("ErrInvalidConnPacket")
  ELSE
    LET protocolNameLen == Uint16(raw, 2)
        nameEnd == 4 + protocolNameLen
    IN
    IF nameEnd > Len(raw) THEN Err("ErrInvalidConnPacket")
    ELSE IF Slice(raw, 4, nameEnd) # ProtocolMQTT THEN Err("ErrUnsupportedProtocolName")
    ELSE IF nameEnd >= Len(raw) THEN Err("ErrInvalidConnPacket")
    ELSE IF At(raw, nameEnd) # 4 THEN Err("ErrUnsupportedProtocolLevel")
    ELSE IF nameEnd + 1 >= Len(raw) THEN Err("ErrInvalidConnPacket")
    ELSE
      LET connectFlags == At(raw, nameEnd + 1)
          willQoS == (connectFlags \div 8) % 4
          cp0 == [ProtocolLevel |-> 4,
                  UsernameFlag |-> Bit(connectFlags, 7),
                  PasswordFlag |-> Bit(connectFlags, 6),
                  WillRetain |-> Bit(connectFlags, 5),
                  WillQoS |-> willQoS,
                  WillFlag |-> Bit(connectFlags, 2),
                  CleanSession |-> Bit(connectFlags, 1),
                  KeepAlive |-> 0,
                  ClientID |-> <<>>,
                  WillTopic |-> Nil, WillMessage |-> Nil,
                  Username |-> Nil, Password |-> Nil]
          offset == nameEnd + 2
      IN
      IF cp0.WillFlag /\ willQoS > 2 THEN Err("ErrInvalidWillQos")
      ELSE IF offset + 2 > Len(raw) THEN Err("ErrInvalidConnPacket")
      \* raw[offset+2 : offset+4] is sliced without a length check
      ELSE IF offset + 4 > Len(raw) THEN Panic
      ELSE
        LET clientIDLen == Uint16(raw, offset + 2)
            idEnd == offset + 4 + clientIDLen
        IN
        IF idEnd > Len(raw) THEN Err("ErrInvalidConnPacket")
        ELSE
          LET id == Slice(raw, offset + 4, idEnd)
              cErr == ValidateClientID(id, cp0.CleanSession)
              cp1 == [cp0 EXCEPT !.KeepAlive = Uint16(raw, offset),
                                 !.ClientID = IF cErr = "ErrEmptyClientID" THEN uuid ELSE id]
          IN
          IF cErr = "ErrEmptyAndCleanSessionClientID" THEN Err("ErrIdentifierRejected")
          ELSE IF cErr \notin {"nil", "ErrEmptyClientID"} THEN Err(cErr)
          ELSE ConnectParseWill(raw, cp1, idEnd)

\* --------------------------------------------------------------------------
\* Remaining length, topic names and topic filters
\* --------------------------------------------------------------------------

\* parseRemainingLength / utils.ParseRemainingLength over data = raw[1:]:
\* [err, length, offset], offset being the number of length bytes
RECURSIVE RemLenLoop(_, _, _, _)
RemLenLoop(data, offset, length, multiplier) ==
  IF offset >= Len(data) THEN [err |-> "ErrShortBuffer", length |-> 0, offset |-> 0]
  ELSE IF offset >= 4 THEN [err |-> "ErrRemainingLengthExceeded", length |-> 0, offset |-> 0]
  ELSE
    LET encodedByte == At(data, offset)
        l == length + (encodedByte % 128) * multiplier
    IN IF encodedByte < 128
         THEN [err |-> "nil", length |-> l, offset |-> offset + 1]
         ELSE RemLenLoop(data, offset + 1, l, multiplier * 128)

parseRemainingLength(data) == RemLenLoop(data, 0, 0, 1)

\* encodeRemainingLength / utils.EncodeRemainingLength
RECURSIVE encodeRemainingLength(_)
encodeRemainingLength(length) ==
  IF length \div 128 > 0
    THEN <<(length % 128) + 128>> \o encodeRemainingLength(length \div 128)
    ELSE <<length % 128>>

\* utf8.ValidString on the model's strings: they are ASCII, and a byte of 128
\* or more only ever stands alone, which is not valid UTF-8
ValidString(s) == \A i \in 1..Len(s) : s[i] < 128

containsWildcards(topic) ==
  \E i \in 1..Len(topic) : topic[i] \in {Ch.Plus, Ch.Hash}

HasNull(s) == \E i \in 1..Len(s) : s[i] = 0

\* U+0001..U+001F and U+007F..U+009F
HasControl(s) == \E i \in 1..Len(s) : (s[i] >= 1 /\ s[i] <= 31) \/ s[i] = 127

\* packet.validateTopic, the check PublishPacket.Parse applies to the topic
validateTopic(topic) ==
  IF containsWildcards(topic) THEN "ErrWildcardsNotAllowedInPublish"
  ELSE IF ~ValidString(topic) THEN "ErrInvalidUTF8Topic"
  ELSE IF HasNull(topic) THEN "ErrNullCharacterInTopic"
  ELSE IF HasControl(topic) THEN "ErrControlCharacterInTopic"
  ELSE "nil"

\* utils.hasEmptyLevels: two consecutive slashes, or a trailing slash
hasEmptyLevels(topic) ==
  \/ \E i \in 1..(Len(topic) - 1) : topic[i] = Ch.Slash /\ topic[i + 1] = Ch.Slash
  \/ (Len(topic) > 0 /\ topic[Len(topic)] = Ch.Slash)

\* strings.Split(topic, "/") and utils.splitTopicLevels (the two agree on a
\* non-empty string): the levels of a topic
RECURSIVE SplitFrom(_, _, _)
SplitFrom(topic, i, cur) ==
  IF i > Len(topic) THEN <<cur>>
  ELSE IF topic[i] = Ch.Slash THEN <<cur>> \o SplitFrom(topic, i + 1, <<>>)
  ELSE SplitFrom(topic, i + 1, Append(cur, topic[i]))

Split(topic) == SplitFrom(topic, 1, <<>>)

LevelPlus == <<Ch.Plus>>
LevelHash == <<Ch.Hash>>

\* utils.validateWildcards: by level
utilsValidateWildcards(topicFilter) ==
  LET levels == Split(topicFilter)
      Bad(i) ==
        LET level == levels[i] IN
        IF (\E j \in 1..Len(level) : level[j] = Ch.Plus) /\ level # LevelPlus
          THEN "ErrInvalidSingleLevelWildcard"
        ELSE IF (\E j \in 1..Len(level) : level[j] = Ch.Hash) /\ level # LevelHash
          THEN "ErrInvalidMultiLevelWildcard"
        ELSE IF (\E j \in 1..Len(level) : level[j] = Ch.Hash) /\ i # Len(levels)
          THEN "ErrMultiLevelWildcardNotLast"
        ELSE "nil"
      bad == {i \in 1..Len(levels) : Bad(i) # "nil"}
  IN IF bad = {} THEN "nil"
     ELSE Bad(CHOOSE i \in bad : \A j \in bad : i <= j)

\* utils.ValidateTopicFilter
ValidateTopicFilter(topicFilter) ==
  IF topicFilter = <<>> THEN "ErrEmptyTopicFilter"
  ELSE IF ~ValidString(topicFilter) THEN "ErrInvalidUTF8Topic"
  ELSE IF HasNull(topicFilter) THEN "ErrNullCharacterInTopic"
  ELSE IF hasEmptyLevels(topicFilter) THEN "ErrEmptyTopicLevel"
  ELSE utilsValidateWildcards(topicFilter)

\* utils.ValidateTopicName
ValidateTopicName(topicName) ==
  IF topicName = <<>> THEN "ErrEmptyTopic"
  ELSE IF ~ValidString(topicName) THEN "ErrInvalidUTF8Topic"
  ELSE IF HasNull(topicName) THEN "ErrNullCharacterInTopic"
  ELSE IF HasControl(topicName) THEN "ErrControlCharacterInTopic"
  ELSE IF containsWildcards(topicName) THEN "ErrWildcardsNotAllowedInPublish"
  ELSE IF hasEmptyLevels(topicName) THEN "ErrEmptyTopicLevel"
  ELSE "nil"

\* packet.validateWildcards (subscribe.go): by character
packetValidateWildcards(f) ==
  LET length == Len(f)
      Bad(i) ==
        IF f[i] = Ch.Hash /\ i # length THEN "ErrMultiLevelWildcardNotLast"
        ELSE IF f[i] = Ch.Hash /\ i > 1 /\ f[i - 1] # Ch.Slash
          THEN "ErrMultiLevelWildcardNotAlone"
        ELSE IF f[i] = Ch.Plus /\ i > 1 /\ f[i - 1] # Ch.Slash
          THEN "ErrSingleLevelWildcardNotAlone"
        ELSE IF f[i] = Ch.Plus /\ i < length /\ f[i + 1] # Ch.Slash
          THEN "ErrSingleLevelWildcardNotAlone"
        ELSE "nil"
      bad == {i \in 1..length : Bad(i) # "nil"}
  IN IF bad = {} THEN "nil"
     ELSE Bad(CHOOSE i \in bad : \A j \in bad : i <= j)

\* packet.validateTopicFilter and validateUnsubscribeTopicFilter, the check
\* SubscribePacket.Parse and UnsubscribePacket.Parse apply to each filter
validateTopicFilter(topicFilter) ==
  IF ~ValidString(topicFilter) THEN "ErrInvalidUTF8TopicFilter"
  ELSE IF HasNull(topicFilter) THEN "ErrNullCharacterInTopicFilter"
  ELSE IF HasControl(topicFilter) THEN "ErrControlCharacterInTopicFilter"
  ELSE packetValidateWildcards(topicFilter)

\* --------------------------------------------------------------------------
\* PUBLISH
\* --------------------------------------------------------------------------

PublishPacketParse(raw) ==
  IF Len(raw) < 2 THEN Err("ErrInvalidPublishPacket")
  ELSE IF HighNibble(At(raw, 0)) # PUBLISH THEN Err("ErrInvalidPublishPacket")
  ELSE
    LET rl == parseRemainingLength(Slice(raw, 1, Len(raw))) IN
    IF rl.err # "nil"
      THEN Err(IF rl.err = "ErrRemainingLengthExceeded"
                 THEN "ErrPublishRemainingLengthExceeded" ELSE rl.err)
    ELSE IF Len(raw) # 1 + rl.offset + rl.length THEN Err("ErrInvalidPacketLength")
    ELSE
      LET offset == rl.offset + 1
          fixedHeader == At(raw, 0)
          dup == Bit(fixedHeader, 3)
          qos == (fixedHeader \div 2) % 4
          retain == Bit(fixedHeader, 0)
      IN
      IF qos > QoSExactlyOnce THEN Err("ErrInvalidQoSLevel")
      ELSE IF dup /\ qos = QoSAtMostOnce THEN Err("ErrInvalidDUPFlag")
      ELSE IF offset + 2 > Len(raw) THEN Err("ErrInvalidPublishPacket")
      ELSE
        LET topicLen == Uint16(raw, offset)
            topicEnd == offset + 2 + topicLen
        IN
        IF topicLen = 0 THEN Err("ErrEmptyTopic")
        ELSE IF topicEnd > Len(raw) THEN Err("ErrInvalidPublishPacket")
        ELSE IF validateTopic(Slice(raw, offset + 2, topicEnd)) # "nil"
          THEN Err(validateTopic(Slice(raw, offset + 2, topicEnd)))
        ELSE IF qos # QoSAtMostOnce /\ topicEnd + 2 > Len(raw) THEN Err("ErrMissingPacketID")
        ELSE IF qos # QoSAtMostOnce /\ Uint16(raw, topicEnd) = 0 THEN Err("ErrInvalidPacketID")
        ELSE
          LET payloadStart == IF qos # QoSAtMostOnce THEN topicEnd + 2 ELSE topicEnd IN
          [kind |-> "pkt", Type |-> PUBLISH,
           Publish |-> [DUP |-> dup, QoS |-> qos, Retain |-> retain,
                        Topic |-> Slice(raw, offset + 2, topicEnd),
                        PacketID |-> IF qos # QoSAtMostOnce
                                       THEN Uint16(raw, topicEnd) ELSE 0,
                        Payload |-> Slice(raw, payloadStart, Len(raw))]]

\* PublishPacket.Encode
PublishPacketEncode(pp) ==
  LET firstByte == PUBLISH + (IF pp.DUP THEN 8 ELSE 0) + pp.QoS * 2
                     + (IF pp.Retain THEN 1 ELSE 0)
      remainingLength == 2 + Len(pp.Topic) + (IF pp.QoS > QoSAtMostOnce THEN 2 ELSE 0)
                           + Len(pp.Payload)
  IN <<firstByte>> \o encodeRemainingLength(remainingLength) \o Str(pp.Topic)
       \o (IF pp.QoS > QoSAtMostOnce THEN PutUint16(pp.PacketID) ELSE <<>>)
       \o pp.Payload

\* --------------------------------------------------------------------------
\* PUBACK, PUBREC, PUBREL, PUBCOMP
\* --------------------------------------------------------------------------

PubackPacketParse(raw) ==
  IF Len(raw) < 4 THEN Err("ErrShortBuffer")
  ELSE IF HighNibble(At(raw, 0)) # PUBACK THEN Err("ErrInvalidPacketType")
  ELSE IF At(raw, 1) # 2 THEN Err("ErrInvalidPacketLength")
  ELSE [kind |-> "pkt", Type |-> PUBACK, PacketID |-> Uint16(raw, 2)]

PubrecPacketParse(raw) ==
  IF Len(raw) < 4 THEN Err("ErrShortBuffer")
  ELSE IF HighNibble(At(raw, 0)) # PUBREC THEN Err("ErrInvalidPacketType")
  ELSE IF At(raw, 1) # 2 THEN Err("ErrInvalidPacketLength")
  ELSE [kind |-> "pkt", Type |-> PUBREC, PacketID |-> Uint16(raw, 2)]

PubrelPacketParse(raw) ==
  IF Len(raw) < 4 THEN Err("ErrShortBuffer")
  ELSE IF HighNibble(At(raw, 0)) # PUBREL THEN Err("ErrInvalidPacketType")
  ELSE IF LowNibble(At(raw, 0)) # 2 THEN Err("ErrInvalidPacketType")
  ELSE IF At(raw, 1) # 2 THEN Err("ErrInvalidPacketLength")
  ELSE [kind |-> "pkt", Type |-> PUBREL, PacketID |-> Uint16(raw, 2)]

PubcompPacketParse(raw) ==
  IF Len(raw) < 4 THEN Err("ErrShortBuffer")
  ELSE IF HighNibble(At(raw, 0)) # PUBCOMP THEN Err("ErrInvalidPacketType")
  ELSE IF At(raw, 1) # 2 THEN Err("ErrInvalidPacketLength")
  ELSE [kind |-> "pkt", Type |-> PUBCOMP, PacketID |-> Uint16(raw, 2)]

\* the Encode methods of the four acknowledgements
PubackPacketEncode(packetID) == <<PUBACK, 2>> \o PutUint16(packetID)
PubrecPacketEncode(packetID) == <<PUBREC, 2>> \o PutUint16(packetID)
PubrelPacketEncode(packetID) == <<PUBREL + 2, 2>> \o PutUint16(packetID)
PubcompPacketEncode(packetID) == <<PUBCOMP, 2>> \o PutUint16(packetID)

\* --------------------------------------------------------------------------
\* SUBSCRIBE, SUBACK, UNSUBSCRIBE, UNSUBACK
\* --------------------------------------------------------------------------

\* the filter loop of SubscribePacket.Parse: an error name, or the filters
RECURSIVE SubscribeFilters(_, _, _)
SubscribeFilters(raw, offset, filters) ==
  IF offset >= Len(raw) THEN [err |-> "nil", filters |-> filters]
  ELSE IF offset + 2 > Len(raw) THEN [err |-> "ErrInvalidSubscribePacket", filters |-> <<>>]
  ELSE
    LET topicLen == Uint16(raw, offset)
        topicEnd == offset + 2 + topicLen
    IN
    IF topicLen = 0 THEN [err |-> "ErrEmptyTopicFilter", filters |-> <<>>]
    ELSE IF topicEnd > Len(raw) THEN [err |-> "ErrInvalidSubscribePacket", filters |-> <<>>]
    ELSE IF validateTopicFilter(Slice(raw, offset + 2, topicEnd)) # "nil"
      THEN [err |-> validateTopicFilter(Slice(raw, offset + 2, topicEnd)), filters |-> <<>>]
    ELSE IF topicEnd >= Len(raw) THEN [err |-> "ErrMissingQoSByte", filters |-> <<>>]
    ELSE IF At(raw, topicEnd) \div 4 # 0
      THEN [err |-> "ErrInvalidQoSReservedBits", filters |-> <<>>]
    ELSE IF At(raw, topicEnd) % 4 > QoSExactlyOnce
      THEN [err |-> "ErrInvalidQoSLevel", filters |-> <<>>]
    ELSE SubscribeFilters(raw, topicEnd + 1,
           Append(filters, [Topic |-> Slice(raw, offset + 2, topicEnd),
                            QoS |-> At(raw, topicEnd) % 4]))

SubscribePacketParse(raw) ==
  IF Len(raw) < 2 THEN Err("ErrInvalidSubscribePacket")
  ELSE IF HighNibble(At(raw, 0)) # SUBSCRIBE THEN Err("ErrInvalidSubscribePacket")
  ELSE IF LowNibble(At(raw, 0)) # 2 THEN Err("ErrInvalidSubscribeFlags")
  ELSE
    LET rl == parseRemainingLength(Slice(raw, 1, Len(raw))) IN
    IF rl.err # "nil" THEN Err(rl.err)
    ELSE IF Len(raw) # 1 + rl.offset + rl.length THEN Err("ErrInvalidPacketLength")
    ELSE IF rl.length < 6 THEN Err("ErrInvalidSubscribePacket")
    ELSE IF rl.offset + 3 > Len(raw) THEN Err("ErrMissingPacketID")
    ELSE IF Uint16(raw, rl.offset + 1) = 0 THEN Err("ErrInvalidPacketID")
    ELSE
      LET fs == SubscribeFilters(raw, rl.offset + 3, <<>>) IN
      IF fs.err # "nil" THEN Err(fs.err)
      ELSE IF Len(fs.filters) = 0 THEN Err("ErrNoTopicFilters")
      ELSE [kind |-> "pkt", Type |-> SUBSCRIBE,
            PacketID |-> Uint16(raw, rl.offset + 1), Filters |-> fs.filters]

\* SubackPacket.Encode
SubackPacketEncode(packetID, returnCodes) ==
  <<SUBACK>> \o encodeRemainingLength(2 + Len(returnCodes)) \o PutUint16(packetID)
    \o returnCodes

\* SubackPacket.Parse: the packet id is sliced without a length check
SubackPacketParse(raw) ==
  IF Len(raw) < 4 THEN Err("ErrShortBuffer")
  ELSE IF HighNibble(At(raw, 0)) # SUBACK THEN Err("ErrInvalidPacketType")
  ELSE
    LET rl == parseRemainingLength(Slice(raw, 1, Len(raw))) IN
    IF rl.err # "nil" THEN Err(rl.err)
    ELSE IF Len(raw) # 1 + rl.offset + rl.length THEN Err("ErrInvalidPacketLength")
    ELSE IF 1 + rl.offset + 2 > Len(raw) THEN Panic
    ELSE [kind |-> "pkt", Type |-> SUBACK, PacketID |-> Uint16(raw, 1 + rl.offset),
          ReturnCodes |-> Slice(raw, 3 + rl.offset, Len(raw))]

\* the filter loop of UnsubscribePacket.ParseUnsubscribe
RECURSIVE UnsubscribeFilters(_, _, _)
UnsubscribeFilters(raw, offset, filters) ==
  IF offset >= Len(raw) THEN [err |-> "nil", filters |-> filters]
  ELSE IF offset + 2 > Len(raw) THEN [err |-> "ErrInvalidUnsubscribePacket", filters |-> <<>>]
  ELSE
    LET topicLen == Uint16(raw, offset)
        topicEnd == offset + 2 + topicLen
    IN
    IF topicLen = 0 THEN [err |-> "ErrEmptyTopicFilter", filters |-> <<>>]
    ELSE IF topicEnd > Len(raw) THEN [err |-> "ErrInvalidUnsubscribePacket", filters |-> <<>>]
    ELSE IF validateTopicFilter(Slice(raw, offset + 2, topicEnd)) # "nil"
      THEN [err |-> validateTopicFilter(Slice(raw, offset + 2, topicEnd)), filters |-> <<>>]
    ELSE UnsubscribeFilters(raw, topicEnd, Append(filters, Slice(raw, offset + 2, topicEnd)))

UnsubscribePacketParse(raw) ==
  IF Len(raw) < 2 THEN Err("ErrInvalidUnsubscribePacket")
  ELSE IF HighNibble(At(raw, 0)) # UNSUBSCRIBE THEN Err("ErrInvalidUnsubscribePacket")
  ELSE IF LowNibble(At(raw, 0)) # 2 THEN Err("ErrInvalidUnsubscribeFlags")
  ELSE
    LET rl == parseRemainingLength(Slice(raw, 1, Len(raw))) IN
    IF rl.err # "nil"
      THEN Err(IF rl.err = "ErrRemainingLengthExceeded"
                 THEN "ErrPublishRemainingLengthExceeded" ELSE rl.err)
    ELSE IF Len(raw) # 1 + rl.offset + rl.length THEN Err("ErrInvalidPacketLength")
    ELSE IF rl.length < 4 THEN Err("ErrInvalidUnsubscribePacket")
    ELSE IF rl.offset + 3 > Len(raw) THEN Err("ErrMissingPacketID")
    ELSE IF Uint16(raw, rl.offset + 1) = 0 THEN Err("ErrInvalidPacketID")
    ELSE
      LET fs == UnsubscribeFilters(raw, rl.offset + 3, <<>>) IN
      IF fs.err # "nil" THEN Err(fs.err)
      ELSE IF Len(fs.filters) = 0 THEN Err("ErrNoTopicFilters")
      ELSE [kind |-> "pkt", Type |-> UNSUBSCRIBE,
            PacketID |-> Uint16(raw, rl.offset + 1), TopicFilters |-> fs.filters]

UnsubackPacketParse(raw) ==
  IF Len(raw) < 4 THEN Err("ErrShortBuffer")
  ELSE IF HighNibble(At(raw, 0)) # UNSUBACK THEN Err("ErrInvalidPacketType")
  ELSE IF At(raw, 1) # 2 THEN Err("ErrInvalidPacketLength")
  ELSE [kind |-> "pkt", Type |-> UNSUBACK, PacketID |-> Uint16(raw, 2)]

UnsubackPacketEncode(packetID) == <<UNSUBACK, 2>> \o PutUint16(packetID)

\* --------------------------------------------------------------------------
\* PINGREQ, PINGRESP, DISCONNECT
\* --------------------------------------------------------------------------

PingreqPacketParse(raw) ==
  IF Len(raw) < 2 THEN Err("ErrInvalidPingreqPacket")
  ELSE IF HighNibble(At(raw, 0)) # PINGREQ THEN Err("ErrInvalidPingreqPacket")
  ELSE IF LowNibble(At(raw, 0)) # 0 THEN Err("ErrInvalidPingreqFlags")
  ELSE IF At(raw, 1) # 0 THEN Err("ErrInvalidPingreqLength")
  ELSE IF Len(raw) # 2 THEN Err("ErrInvalidPacketLength")
  ELSE [kind |-> "pkt", Type |-> PINGREQ]

PingrespPacketEncode == <<PINGRESP, 0>>

\* the whole first byte is compared with 0xE0
DisconnectPacketParse(raw) ==
  IF Len(raw) < 2 THEN Err("ErrInvalidDisconnectPacket")
  ELSE IF At(raw, 0) # DISCONNECT THEN Err("ErrInvalidDisconnectPacket")
  ELSE IF At(raw, 1) # 0 THEN Err("ErrInvalidDisconnectPacket")
  ELSE [kind |-> "pkt", Type |-> DISCONNECT]

\* --------------------------------------------------------------------------
\* packet.Parse: dispatch on the type nibble.  CONNACK, PINGRESP and the two
\* reserved types have no case.
\* --------------------------------------------------------------------------

Parse(raw, uuid) ==
  IF Len(raw) < 1 THEN Err("ErrShortBuffer")
  ELSE
    LET packetType == HighNibble(At(raw, 0)) IN
    CASE packetType = CONNECT -> ConnectPacketParse(raw, uuid)
      [] packetType = PUBLISH -> PublishPacketParse(raw)
      [] packetType = PUBACK -> PubackPacketParse(raw)
      [] packetType = PUBREC -> PubrecPacketParse(raw)
      [] packetType = PUBREL -> PubrelPacketParse(raw)
      [] packetType = PUBCOMP -> PubcompPacketParse(raw)
      [] packetType = SUBSCRIBE -> SubscribePacketParse(raw)
      [] packetType = SUBACK -> SubackPacketParse(raw)
      [] packetType = UNSUBSCRIBE -> UnsubscribePacketParse(raw)
      [] packetType = UNSUBACK -> UnsubackPacketParse(raw)
      [] packetType = PINGREQ -> PingreqPacketParse(raw)
      [] packetType = DISCONNECT -> DisconnectPacketParse(raw)
      [] OTHER -> Err("ErrInvalidPacketType")

\* --------------------------------------------------------------------------
\* Finite maps
\* --------------------------------------------------------------------------

EmptyMap == <<>>

\* m with key k set to v (Go: m[k] = v)
Put(m, k, v) == [x \in DOMAIN m \cup {k} |-> IF x = k THEN v ELSE m[x]]

\* m without key k (Go: delete(m, k))
Del(m, k) == [x \in DOMAIN m \ {k} |-> m[x]]

\* the elements of a finite set, one after the other.  Go iterates a map in
\* an unspecified order; the model fixes one.
RECURSIVE SetToSeq(_)
SetToSeq(S) ==
  IF S = {} THEN <<>>
  ELSE LET x == CHOOSE y \in S : TRUE IN <<x>> \o SetToSeq(S \ {x})

\* --------------------------------------------------------------------------
\* The subscription trie.  A node is named by the path of levels that leads
\* to it from the root <<>>; trie maps every existing node to its
\* subscribers (ClientID -> Subscription).  The children of node p are the
\* existing nodes p \o <<level>>.
\* --------------------------------------------------------------------------

NewSubscriptionTree == (<<>> :> EmptyMap)

Children(trie, p) ==
  {q \in DOMAIN trie : Len(q) = Len(p) + 1 /\ SubSeq(q, 1, Len(p)) = p}

\* the levels Subscribe and Unsubscribe walk: they stop after the first "#"
RECURSIVE WalkLevels(_)
WalkLevels(levels) ==
  IF levels = <<>> THEN <<>>
  ELSE IF Head(levels) = LevelHash THEN <<LevelHash>>
  ELSE <<Head(levels)>> \o WalkLevels(Tail(levels))

\* SubscriptionTree.Subscribe: [err, trie]
TreeSubscribe(trie, clientID, conn, topicFilter, qos) ==
  IF ValidateTopicFilter(topicFilter) # "nil"
    THEN [err |-> ValidateTopicFilter(topicFilter), trie |-> trie]
  ELSE
    LET path == WalkLevels(Split(topicFilter))
        created == {SubSeq(path, 1, n) : n \in 0..Len(path)}
        withNodes == [q \in DOMAIN trie \cup created |->
                        IF q \in DOMAIN trie THEN trie[q] ELSE EmptyMap]
    IN [err |-> "nil",
        trie |-> [withNodes EXCEPT ![path] =
                    Put(@, clientID, [ClientID |-> clientID, Conn |-> conn, QoS |-> qos])]]

\* a cleanup that removes the leaf when it is empty and looks no further up:
\* not what the broker does
cleanupLeafOnly(trie, path) ==
  IF path = <<>> \/ DOMAIN trie[path] # {} \/ Children(trie, path) # {} THEN trie
  ELSE Del(trie, path)

\* SubscriptionTree.cleanupEmptyNodes: from the leaf towards the root, remove
\* the node while it has neither subscribers nor children
RECURSIVE cleanupEmptyNodes(_, _)
cleanupEmptyNodes(trie, path) ==
  IF path = <<>> THEN trie
  ELSE IF DOMAIN trie[path] # {} \/ Children(trie, path) # {} THEN trie
  ELSE cleanupEmptyNodes(Del(trie, path), SubSeq(path, 1, Len(path) - 1))

\* an Unsubscribe that empties the node of the filter, whoever subscribed to
\* it: not what the broker does
TreeUnsubscribeEveryone(trie, clientID, topicFilter) ==
  LET path == WalkLevels(Split(topicFilter)) IN
  IF path \notin DOMAIN trie THEN trie
  ELSE cleanupEmptyNodes([trie EXCEPT ![path] = EmptyMap], path)

\* SubscriptionTree.Unsubscribe
TreeUnsubscribe(trie, clientID, topicFilter) ==
  LET path == WalkLevels(Split(topicFilter)) IN
  IF path \notin DOMAIN trie THEN trie
  ELSE cleanupEmptyNodes([trie EXCEPT ![path] = Del(@, clientID)], path)

\* a removal that looks at the root node only: not what the broker does
UnsubscribeAllAtRoot(trie, clientID) ==
  [q \in DOMAIN trie |-> IF q = <<>> THEN Del(trie[q], clientID) ELSE trie[q]]

\* SubscriptionTree.UnsubscribeAll / removeClientFromTree: every node is
\* visited, none is removed
UnsubscribeAll(trie, clientID) ==
  [q \in DOMAIN trie |-> Del(trie[q], clientID)]

Subscribers(trie, p) == SetToSeq({trie[p][c] : c \in DOMAIN trie[p]})

\* a matching that follows the exact child and the "#" child and never the
\* "+" child: not what the broker does
RECURSIVE matchRecursiveWithoutPlus(_, _, _, _)
matchRecursiveWithoutPlus(trie, node, topicLevels, levelIndex) ==
  IF levelIndex >= Len(topicLevels) THEN Subscribers(trie, node)
  ELSE
    LET exactChild == Append(node, topicLevels[levelIndex + 1])
        hashChild == Append(node, LevelHash)
    IN (IF exactChild \in DOMAIN trie
          THEN matchRecursiveWithoutPlus(trie, exactChild, topicLevels, levelIndex + 1)
          ELSE <<>>)
       \o (IF hashChild \in DOMAIN trie THEN Subscribers(trie, hashChild) ELSE <<>>)

\* SubscriptionTree.matchRecursive: the matches, in the order they are appended
RECURSIVE matchRecursive(_, _, _, _)
matchRecursive(trie, node, topicLevels, levelIndex) ==
  IF levelIndex >= Len(topicLevels) THEN Subscribers(trie, node)
  ELSE
    LET currentLevel == topicLevels[levelIndex + 1]
        exactChild == Append(node, currentLevel)
        plusChild == Append(node, LevelPlus)
        hashChild == Append(node, LevelHash)
    IN (IF exactChild \in DOMAIN trie
          THEN matchRecursive(trie, exactChild, topicLevels, levelIndex + 1) ELSE <<>>)
       \o (IF plusChild \in DOMAIN trie
             THEN matchRecursive(trie, plusChild, topicLevels, levelIndex + 1) ELSE <<>>)
       \o (IF hashChild \in DOMAIN trie THEN Subscribers(trie, hashChild) ELSE <<>>)

\* SubscriptionTree.Match
Match(trie, topic) == matchRecursive(trie, <<>>, Split(topic), 0)

\* a matching that is content once the filter's levels are used up, whatever
\* is left of the name: not what the broker does
RECURSIVE topicMatchesAsPrefix(_, _, _, _)
topicMatchesAsPrefix(filterLevels, nameLevels, filterIndex, nameIndex) ==
  IF filterIndex >= Len(filterLevels) THEN TRUE
  ELSE IF nameIndex >= Len(nameLevels) THEN FALSE
  ELSE IF filterLevels[filterIndex + 1] = <<Ch.Hash>> THEN TRUE
  ELSE /\ filterLevels[filterIndex + 1] \in {<<Ch.Plus>>, nameLevels[nameIndex + 1]}
       /\ topicMatchesAsPrefix(filterLevels, nameLevels, filterIndex + 1, nameIndex + 1)

\* topicMatchesRecursive
RECURSIVE topicMatchesRecursive(_, _, _, _)
topicMatchesRecursive(filterLevels, nameLevels, filterIndex, nameIndex) ==
  IF filterIndex >= Len(filterLevels) THEN nameIndex >= Len(nameLevels)
  ELSE IF nameIndex >= Len(nameLevels) THEN FALSE
  ELSE
    LET currentFilter == filterLevels[filterIndex + 1]
        currentName == nameLevels[nameIndex + 1]
    IN IF currentFilter = LevelPlus
         THEN topicMatchesRecursive(filterLevels, nameLevels, filterIndex + 1, nameIndex + 1)
       ELSE IF currentFilter = LevelHash THEN TRUE
       ELSE IF currentFilter = currentName
         THEN topicMatchesRecursive(filterLevels, nameLevels, filterIndex + 1, nameIndex + 1)
       ELSE FALSE

\* broker.TopicMatches
TopicMatches(topicFilter, topicName) ==
  IF ValidateTopicFilter(topicFilter) # "nil" \/ ValidateTopicName(topicName) # "nil"
    THEN FALSE
    ELSE topicMatchesRecursive(Split(topicFilter), Split(topicName), 0, 0)

\* --------------------------------------------------------------------------
\* Credentials
\* --------------------------------------------------------------------------

\* hash.HashPasswd: the stored secret of a password (bcrypt, here a tag in
\* front of the password: a secret never equals the password it was made of)
HashPasswd(passwd) == <<36>> \o passwd

\* hash.VerifyPasswd
VerifyPasswd(hash, passwd) == hash = HashPasswd(passwd)

\* the rows of table users (username -> secret): user "u" with password "p"
Users == (<<Ch.u>> :> HashPasswd(<<Ch.p>>))

\* auth.Store.Authenticate: the error returned, "nil" for none
Authenticate(username, password) ==
  IF username \notin DOMAIN Users THEN "ErrUserNotFound"
  ELSE IF VerifyPasswd(Users[username], password) THEN "ErrInvalidPassword"
  ELSE "nil"

\* --------------------------------------------------------------------------
\* Broker operations on the broker's state
\*   st = [retainedMsgs, packetIDSeq, pendingQoS1, pendingQoS2, out]
\* out is the sequence of writes the operation makes, [conn, pkt] each.
\* The QoS tables map <<clientID, packetID>> to the stored message: the
\* code's map of maps, whose inner maps are deleted when they become empty.
\* --------------------------------------------------------------------------

TwoTo16 == 256 * 256

\* the 32-bit counter packetIDSeq is kept as its two 16-bit halves
\* atomic.AddUint32(&seq, 1)
AddUint32(seq) ==
  IF seq.lo + 1 = TwoTo16 THEN [hi |-> (seq.hi + 1) % TwoTo16, lo |-> 0]
  ELSE [hi |-> seq.hi, lo |-> seq.lo + 1]

\* Broker.generatePacketID on counter value seq: the new counter value and
\* the id returned, uint16(id)
generatePacketID(seq) ==
  LET id == AddUint32(seq)
      skipped == IF id.hi = 0 /\ id.lo = 0 THEN AddUint32(id) ELSE id
  IN [seq |-> skipped, packetID |-> skipped.lo]

\* a delivery at the QoS of the publication, whatever was granted: not what
\* the broker does
publishedQoS(qos1, qos2) == qos1

\* minQoS
minQoS(qos1, qos2) == IF qos1 < qos2 THEN qos1 ELSE qos2

\* Broker.getGrantedQoS
getGrantedQoS(requestedQoS) ==
  IF requestedQoS > QoSExactlyOnce THEN QoSExactlyOnce ELSE requestedQoS

\* Broker.sendPacket: the write of the encoded PUBLISH on the session's
\* connection
sendPacket(out, sess, publishPacket) ==
  Append(out, [conn |-> sess.Conn, pkt |-> PublishPacketEncode(publishPacket)])

\* the QoS manager's constants: retries, and seconds
DefaultMaxRetries == 3
DefaultRetryDelay == 30
QoS2Timeout == 300
RetryTickerPeriod == 10

\* the PendingMessage deliverMessage builds
PendingMessage(packetID, sess, topic, payload, qos, retain) ==
  [PacketID |-> packetID, ClientID |-> sess.ClientID, Topic |-> topic,
   Payload |-> payload, QoS |-> qos, Retain |-> retain, Timestamp |-> 0,
   RetryCount |-> 0, MaxRetries |-> 0, RetryDelay |-> 0, Conn |-> sess.Conn]

\* QoSManager.AddPendingQoS1 / AddPendingQoS2 at the given time, on the
\* table of the QoS
AddPending(table, msg, timestamp) ==
  Put(table, <<msg.ClientID, msg.PacketID>>,
      [msg EXCEPT !.Timestamp = timestamp, !.MaxRetries = DefaultMaxRetries,
                  !.RetryDelay = DefaultRetryDelay])

\* Broker.deliverMessage
deliverMessage(st, sess, topic, payload, qos, retain) ==
  IF qos = QoSAtMostOnce
    THEN [st EXCEPT !.out = sendPacket(@, sess,
            [DUP |-> FALSE, QoS |-> qos, Retain |-> retain, Topic |-> topic,
             PacketID |-> 0, Payload |-> payload])]
  ELSE
    LET g == generatePacketID(st.packetIDSeq)
        pendingMsg == PendingMessage(g.packetID, sess, topic, payload, qos, retain)
    IN [st EXCEPT
          !.packetIDSeq = g.seq,
          !.pendingQoS1 = IF qos = QoSAtLeastOnce
                            THEN AddPending(@, pendingMsg, st.now) ELSE @,
          !.pendingQoS2 = IF qos = QoSExactlyOnce
                            THEN AddPending(@, pendingMsg, st.now) ELSE @,
          !.out = sendPacket(@, sess,
            [DUP |-> FALSE, QoS |-> qos, Retain |-> retain, Topic |-> topic,
             PacketID |-> g.packetID, Payload |-> payload])]

\* a store that keeps a retained message whatever its payload: not what
\* the broker does
handleRetainedMessageKeepingEmpty(retained, publishPacket) ==
  Put(retained, publishPacket.Topic,
      [Topic |-> publishPacket.Topic, Payload |-> publishPacket.Payload,
       QoS |-> publishPacket.QoS])

\* Broker.handleRetainedMessage
handleRetainedMessage(retained, publishPacket) ==
  IF Len(publishPacket.Payload) = 0 THEN Del(retained, publishPacket.Topic)
  ELSE Put(retained, publishPacket.Topic,
           [Topic |-> publishPacket.Topic, Payload |-> publishPacket.Payload,
            QoS |-> publishPacket.QoS])

\* the loop of Broker.HandlePublish over the matches
RECURSIVE DeliverToMatches(_, _, _)
DeliverToMatches(st, matches, publishPacket) ==
  IF matches = <<>> THEN st
  ELSE DeliverToMatches(
         deliverMessage(st, Head(matches), publishPacket.Topic, publishPacket.Payload,
                        minQoS(publishPacket.QoS, Head(matches).QoS),
                        publishPacket.Retain),
         Tail(matches), publishPacket)

\* Broker.HandlePublish: [err, st]
HandlePublish(st, trie, publishPacket) ==
  IF ValidateTopicName(publishPacket.Topic) # "nil"
    THEN [err |-> ValidateTopicName(publishPacket.Topic), st |-> st]
  ELSE
    LET kept == IF publishPacket.Retain
                  THEN [st EXCEPT !.retainedMsgs = handleRetainedMessage(@, publishPacket)]
                  ELSE st
    IN [err |-> "nil",
        st |-> DeliverToMatches(kept, Match(trie, publishPacket.Topic), publishPacket)]

\* Broker.sendRetainedMessages: the loop over the retained topics
RECURSIVE sendRetainedMessages(_, _, _, _, _)
sendRetainedMessages(st, topics, sess, topicFilter, maxQoS) ==
  IF topics = <<>> THEN st
  ELSE
    LET topic == Head(topics)
        retainedMsg == st.retainedMsgs[topic]
        next == IF TopicMatches(topicFilter, topic)
                  THEN deliverMessage(st, sess, topic, retainedMsg.Payload,
                                      minQoS(retainedMsg.QoS, maxQoS), TRUE)
                  ELSE st
    IN sendRetainedMessages(next, Tail(topics), sess, topicFilter, maxQoS)

\* the loop of Broker.HandleSubscribe over the filters of the packet:
\* [st, trie, returnCodes]
RECURSIVE SubscribeLoop(_, _, _, _, _)
SubscribeLoop(st, trie, returnCodes, sess, filters) ==
  IF filters = <<>> THEN [st |-> st, trie |-> trie, returnCodes |-> returnCodes]
  ELSE
    LET filter == Head(filters)
        sub == TreeSubscribe(trie, sess.ClientID, sess.Conn, filter.Topic, filter.QoS)
        grantedQoS == getGrantedQoS(filter.QoS)
    IN IF ValidateTopicFilter(filter.Topic) # "nil" \/ sub.err # "nil"
         THEN SubscribeLoop(st, trie, Append(returnCodes, SubackFailure), sess,
                            Tail(filters))
         ELSE SubscribeLoop(
                sendRetainedMessages(st, SetToSeq(DOMAIN st.retainedMsgs), sess,
                                     filter.Topic, grantedQoS),
                sub.trie, Append(returnCodes, grantedQoS), sess, Tail(filters))

\* Broker.HandleSubscribe
HandleSubscribe(st, trie, sess, subscribePacket) ==
  SubscribeLoop(st, trie, <<>>, sess, subscribePacket.Filters)

\* Broker.HandleUnsubscribe: the trie after the loop over the filters
RECURSIVE HandleUnsubscribe(_, _, _)
HandleUnsubscribe(trie, clientID, topicFilters) ==
  IF topicFilters = <<>> THEN trie
  ELSE HandleUnsubscribe(TreeUnsubscribe(trie, clientID, Head(topicFilters)),
                         clientID, Tail(topicFilters))

\* QoSManager.CleanupClient on one table
CleanupClient(table, clientID) ==
  [key \in {x \in DOMAIN table : x[1] # clientID} |-> table[key]]

\* the entry HandleIncomingQoS2Publish and HandlePubRec store
ReceivedQoS2(packetID, clientID, topic, payload, retain, timestamp) ==
  [PacketID |-> packetID, ClientID |-> clientID, Topic |-> topic,
   Payload |-> payload, Retain |-> retain, Timestamp |-> timestamp]

\* QoSManager.HandleIncomingQoS2Publish: the table afterwards
HandleIncomingQoS2Publish(received, clientID, packetID, topic, payload, retain, timestamp) ==
  IF <<clientID, packetID>> \in DOMAIN received THEN received
  ELSE Put(received, <<clientID, packetID>>,
           ReceivedQoS2(packetID, clientID, topic, payload, retain, timestamp))

\* a PUBREC that starts the release and leaves the entry in the table of
\* unreceived messages: not what the broker does
HandlePubRecKeepingPending(pending, received, client, packetID, timestamp) ==
  LET key == <<client, packetID>> IN
  IF key \in DOMAIN pending
    THEN [pending |-> pending,
          received |-> Put(received, key,
                           ReceivedQoS2(packetID, client, pending[key].Topic,
                                        pending[key].Payload, pending[key].Retain,
                                        timestamp)),
          pubrel |-> TRUE]
    ELSE [pending |-> pending, received |-> received, pubrel |-> FALSE]

\* QoSManager.HandlePubRec on the tables pendingQoS2 and qos2Received: the
\* two tables after it, and whether it returned a PUBREL
HandlePubRec(pending, received, client, packetID, timestamp) ==
  LET key == <<client, packetID>> IN
  IF key \in DOMAIN pending
    THEN [pending |-> Del(pending, key),
          received |-> Put(received, key,
                           ReceivedQoS2(packetID, client, pending[key].Topic,
                                        pending[key].Payload, pending[key].Retain,
                                        timestamp)),
          pubrel |-> TRUE]
    ELSE [pending |-> pending, received |-> received, pubrel |-> FALSE]

\* a retry that writes the PUBLISH as it was first written, without DUP: not
\* what the broker does
retryMessageAsFirstSent(out, msg) ==
  Append(out, [conn |-> msg.Conn,
               pkt |-> PublishPacketEncode(
                         [DUP |-> FALSE, QoS |-> msg.QoS, Retain |-> msg.Retain,
                          Topic |-> msg.Topic, PacketID |-> msg.PacketID,
                          Payload |-> msg.Payload])])

\* QoSManager.retryMessage: the PUBLISH is written again, with DUP set
retryMessage(out, msg) ==
  Append(out, [conn |-> msg.Conn,
               pkt |-> PublishPacketEncode(
                         [DUP |-> TRUE, QoS |-> msg.QoS, Retain |-> msg.Retain,
                          Topic |-> msg.Topic, PacketID |-> msg.PacketID,
                          Payload |-> msg.Payload])])

\* one of the two loops of QoSManager.processRetries, over the entries of
\* one table: the table afterwards and the writes
RECURSIVE processRetriesIn(_, _, _, _)
processRetriesIn(table, keys, timestamp, out) ==
  IF keys = <<>> THEN [table |-> table, out |-> out]
  ELSE
    LET msg == table[Head(keys)]
        retried == [msg EXCEPT !.RetryCount = @ + 1, !.Timestamp = timestamp]
    IN IF timestamp - msg.Timestamp >= msg.RetryDelay
         THEN IF msg.RetryCount < msg.MaxRetries
                THEN processRetriesIn(Put(table, Head(keys), retried), Tail(keys),
                                      timestamp, retryMessage(out, retried))
                ELSE processRetriesIn(Del(table, Head(keys)), Tail(keys), timestamp, out)
         ELSE processRetriesIn(table, Tail(keys), timestamp, out)

\* QoSManager.processRetries at the given time
processRetries(qos1, qos2, timestamp) ==
  LET r1 == processRetriesIn(qos1, SetToSeq(DOMAIN qos1), timestamp, <<>>)
      r2 == processRetriesIn(qos2, SetToSeq(DOMAIN qos2), timestamp, r1.out)
  IN [pendingQoS1 |-> r1.table, pendingQoS2 |-> r2.table, out |-> r2.out]

\* QoSManager.cleanupTimedOutMessages at the given time
cleanupTimedOutMessages(received, timestamp) ==
  [key \in {x \in DOMAIN received : timestamp - received[x].Timestamp < QoS2Timeout}
     |-> received[key]]

\* --------------------------------------------------------------------------
\* The packets clients send
\* --------------------------------------------------------------------------

\* a packet with first byte b and the given body
Frame(b, body) == <<b>> \o encodeRemainingLength(Len(body)) \o body

RECURSIVE Fields(_)
Fields(strings) ==
  IF strings = <<>> THEN <<>> ELSE Str(Head(strings)) \o Fields(Tail(strings))

\* a CONNECT with keep-alive 60 and the given payload fields
MkConnect(name, level, flags, fields) ==
  Frame(CONNECT, Str(name) \o <<level, flags, 0, 60>> \o Fields(fields))

MkPublish(qos, retain, packetID, topic, payload) ==
  PublishPacketEncode([DUP |-> FALSE, QoS |-> qos, Retain |-> retain, Topic |-> topic,
                       PacketID |-> packetID, Payload |-> payload])

MkSubscribe(packetID, topicFilter, qos) ==
  Frame(SUBSCRIBE + 2, PutUint16(packetID) \o Str(topicFilter) \o <<qos>>)

MkUnsubscribe(packetID, topicFilter) ==
  Frame(UNSUBSCRIBE + 2, PutUint16(packetID) \o Str(topicFilter))

IdA == <<Ch.a>>
IdB == <<Ch.b>>
TopicT == <<Ch.a>>
TopicEmptyLevel == <<Ch.a, Ch.Slash>>
FilterAll == <<Ch.Hash>>
PayloadX == <<Ch.x>>
PayloadY == <<Ch.y>>

\* CONNECT packets that decode
ConnectA1 == MkConnect(ProtocolMQTT, 4, 2, <<IdA>>)
ConnectA0 == MkConnect(ProtocolMQTT, 4, 0, <<IdA>>)
ConnectB1 == MkConnect(ProtocolMQTT, 4, 2, <<IdB>>)
ConnectAnonymous == MkConnect(ProtocolMQTT, 4, 2, <<<<>>>>)
\* client a with a Will: topic "a", message "x", QoS 0
ConnectWillA == MkConnect(ProtocolMQTT, 4, 6, <<IdA, TopicT, PayloadX>>)
ConnectRightPassword == MkConnect(ProtocolMQTT, 4, 194, <<IdA, <<Ch.u>>, <<Ch.p>>>>)
ConnectWrongPassword == MkConnect(ProtocolMQTT, 4, 194, <<IdA, <<Ch.u>>, <<Ch.w>>>>)
ConnectUnknownUser == MkConnect(ProtocolMQTT, 4, 194, <<IdA, <<Ch.x>>, <<Ch.p>>>>)

GoodConnects ==
  {ConnectA1, ConnectA0, ConnectAnonymous, ConnectRightPassword, ConnectWrongPassword,
   ConnectUnknownUser}

\* CONNECT packets that do not decode
ConnectBadName == MkConnect(<<Ch.M, Ch.Q, Ch.T, Ch.I>>, 4, 2, <<IdA>>)
ConnectBadLevel == MkConnect(ProtocolMQTT, 3, 2, <<IdA>>)
ConnectBadChar == MkConnect(ProtocolMQTT, 4, 2, <<<<Ch.Bang>>>>)
ConnectLongID == MkConnect(ProtocolMQTT, 4, 2, <<[i \in 1..24 |-> Ch.a]>>)
ConnectEmptyIDNotClean == MkConnect(ProtocolMQTT, 4, 0, <<<<>>>>)
ConnectPasswordOnly == MkConnect(ProtocolMQTT, 4, 66, <<IdA, <<Ch.p>>>>)
ConnectNoUsernameField == MkConnect(ProtocolMQTT, 4, 130, <<IdA>>)
ConnectNoPasswordField == MkConnect(ProtocolMQTT, 4, 194, <<IdA, <<Ch.u>>>>)
ConnectWillQoS3 == MkConnect(ProtocolMQTT, 4, 30, <<IdA, TopicT, PayloadX>>)
ConnectNoWillFields == MkConnect(ProtocolMQTT, 4, 6, <<IdA>>)
ConnectShortID == Frame(CONNECT, Str(ProtocolMQTT) \o <<4, 2, 0, 60, 0, 2, Ch.a>>)
ConnectNoKeepAlive == Frame(CONNECT, Str(ProtocolMQTT) \o <<4, 2, 0>>)
\* the body ends right after the keep-alive field
ConnectNoClientID == Frame(CONNECT, Str(ProtocolMQTT) \o <<4, 2, 0, 60>>)

BadConnects ==
  {ConnectBadName, ConnectBadLevel, ConnectBadChar, ConnectLongID,
   ConnectEmptyIDNotClean, ConnectPasswordOnly, ConnectNoUsernameField,
   ConnectNoPasswordField, ConnectWillQoS3, ConnectNoWillFields, ConnectShortID,
   ConnectNoKeepAlive}

\* one packet of each of the thirteen other types
OtherTypes ==
  {<<CONNACK, 2, 0, 0>>,
   MkPublish(0, FALSE, 0, TopicT, PayloadX),
   PubackPacketEncode(1), PubrecPacketEncode(1), PubrelPacketEncode(1),
   PubcompPacketEncode(1),
   MkSubscribe(1, FilterAll, 2),
   SubackPacketEncode(1, <<0>>),
   MkUnsubscribe(1, FilterAll),
   UnsubackPacketEncode(1),
   <<PINGREQ, 0>>, <<PINGRESP, 0>>, <<DISCONNECT, 0>>}

\* packets of those types that are not well-formed
Malformed ==
  {<<PUBREL, 2, 0, 1>>, <<PUBLISH + 6, 0>>, <<SUBSCRIBE, 0>>, <<PINGREQ + 1, 0>>,
   <<DISCONNECT + 1, 0>>, <<0, 0>>, <<240, 0>>}

\* a SUBACK whose remaining length, written in two bytes, is 1
SubackNoPacketID == <<SUBACK, 129, 0, 0>>

\* further packets of an established connection
Publishes ==
  {MkPublish(1, FALSE, 1, TopicT, PayloadX),
   MkPublish(2, TRUE, 1, TopicT, PayloadX),
   MkPublish(2, FALSE, 1, TopicEmptyLevel, PayloadY)}

\* a SUBSCRIBE with several filters, each a [Topic, QoS]
RECURSIVE FilterFields(_)
FilterFields(filters) ==
  IF filters = <<>> THEN <<>>
  ELSE Str(Head(filters).Topic) \o <<Head(filters).QoS>> \o FilterFields(Tail(filters))

MkSubscribeFilters(packetID, filters) ==
  Frame(SUBSCRIBE + 2, PutUint16(packetID) \o FilterFields(filters))

TopicB == <<Ch.b>>
FilterBadPlus == <<Ch.a, Ch.Plus>>
FilterHashInside == <<Ch.a, Ch.Slash, Ch.Hash, Ch.Slash, Ch.b>>
FilterControl == <<Ch.a, Ch.Ctl>>
FilterUnder == <<Ch.a, Ch.Slash, Ch.Hash>>

\* the SUBSCRIBE packets of the subscription scenario: packet id and filters
SubscribeRequests ==
  {[PacketID |-> 1, Filters |-> <<[Topic |-> TopicT, QoS |-> 0]>>],
   [PacketID |-> 2, Filters |-> <<[Topic |-> TopicEmptyLevel, QoS |-> 1],
                                   [Topic |-> FilterAll, QoS |-> 2]>>],
   [PacketID |-> 3, Filters |-> <<[Topic |-> TopicB, QoS |-> 0],
                                   [Topic |-> FilterBadPlus, QoS |-> 1]>>],
   [PacketID |-> 4, Filters |-> <<[Topic |-> FilterHashInside, QoS |-> 0]>>],
   [PacketID |-> 5, Filters |-> <<[Topic |-> FilterControl, QoS |-> 0]>>],
   [PacketID |-> 6, Filters |-> <<[Topic |-> FilterUnder, QoS |-> 2]>>]}

Subscribes == {MkSubscribeFilters(s.PacketID, s.Filters) : s \in SubscribeRequests}

\* the PUBLISH packets of the subscription scenario
RetainX == MkPublish(1, TRUE, 1, TopicT, PayloadX)
RetainY == MkPublish(0, TRUE, 0, TopicB, PayloadY)
RetainEmpty == MkPublish(0, TRUE, 0, TopicT, <<>>)
PlainY == MkPublish(1, FALSE, 2, TopicT, PayloadY)

SubscriptionPublishes == {RetainX, RetainY, RetainEmpty, PlainY}

\* the PUBLISH packets of the delivery scenario, one of each QoS
PlainQoS0 == MkPublish(0, FALSE, 0, TopicT, PayloadX)
PlainQoS2 == MkPublish(2, FALSE, 1, TopicT, PayloadX)

DeliveryPublishes == {PlainQoS0, PlainY, PlainQoS2}

\* acknowledgements whose low nibble is 0001
FlaggedAcks ==
  {<<PUBACK + 1, 2, 0, 1>>, <<PUBREC + 1, 2, 0, 1>>, <<PUBREL + 1, 2, 0, 1>>,
   <<PUBCOMP + 1, 2, 0, 1>>}

Inputs ==
  FlaggedAcks \cup GoodConnects \cup {ConnectB1} \cup BadConnects \cup {ConnectNoClientID}
    \cup OtherTypes \cup Malformed \cup {SubackNoPacketID} \cup Publishes
    \cup Subscribes \cup SubscriptionPublishes \cup DeliveryPublishes
    \cup {MkSubscribe(1, TopicT, 1), ConnectWillA, MkUnsubscribe(2, TopicT)}

\* --------------------------------------------------------------------------
\* The server: state
\* --------------------------------------------------------------------------

MaxConns == 2
MaxPacketIDSeq == 2
MaxUUID == 1
MaxNow == 130
TimeStep == 5
LastSend == 20

\* TCPServer.maxConnections as New sets it
maxConnections == 1000

\* the connections the listener can accept, in the order it accepts them
Conns == 1..MaxConns

NoClient == <<>>

VARIABLES
  pc,                 \* where each connection's handleConnection goroutine is
  clientID,           \* handleConnection's local clientID, NoClient for ""
  brokerSession,      \* the session built at line 239, until it is stored
  isShuttingdown,     \* TCPServer.isShuttingdown
  currentConnections, \* TCPServer.currentConnections
  session,            \* Broker.session: client id -> Session
  trie,               \* Broker.subscriptions
  retainedMsgs,       \* Broker.retainedMsgs: topic -> RetainedMessage
  packetIDSeq,        \* Broker.packetIDSeq
  pendingQoS1,        \* QoSManager.pendingQoS1
  pendingQoS2,        \* QoSManager.pendingQoS2
  qos2Received,       \* QoSManager.qos2Received
  crashed,            \* the process was ended by a panic
  uuidSeq,            \* how many identifiers uuid.NewString has handed out
  written,            \* the writes of the last step that reached a socket
  ev,                 \* the last step: its kind, connection and packet
  published,          \* the packets the last step handed to Broker.HandlePublish
  inbound,            \* per connection: packet id -> the first QoS 2 PUBLISH
                      \* read with that id since the last PUBREL with that id
  dirty,              \* per connection: its handler has changed the registry,
                      \* the trie, the retained store or a QoS table
  filterGiven,        \* the topic filter the matching functions are given
  nameGiven,          \* the topic name the matching functions are given
  matched,            \* what TopicMatches and SubscriptionTree.Match returned
  now,                \* time.Now(), in seconds since the broker was started
  inflight,           \* per connection: the matches and the packet of the
                      \* HandlePublish its handler is in, Nil outside one
  lockTodo,           \* per task: the lock and unlock calls its operation has
                      \* still to make
  lockHolders,        \* per mutex: the tasks that hold it, and how
  lockWaiting         \* per task: it has called Lock or RLock and is blocked

vars == <<pc, clientID, brokerSession, isShuttingdown, currentConnections, session,
          trie, retainedMsgs, packetIDSeq, pendingQoS1, pendingQoS2, qos2Received,
          crashed, uuidSeq, written, ev, published, inbound, dirty, filterGiven,
          nameGiven, matched, now, inflight, lockTodo, lockHolders, lockWaiting>>

\* the shared locks and where each task is with them
lockVars == <<lockTodo, lockHolders, lockWaiting>>

\* the four shared mutexes: Broker.rwmu (session registry),
\* SubscriptionTree.mu, Broker.retainedMu and QoSManager.mu
Mutexes == {"rwmu", "st.mu", "retainedMu", "qm.mu"}

\* the tasks: the handler of each connection, and the retry goroutine
Ticker == 0
Tasks == Conns \cup {Ticker}

\* no task is in an operation and no mutex is held
LocksFree ==
  /\ lockTodo = [t \in Tasks |-> <<>>]
  /\ lockHolders = [mu \in Mutexes |-> {}]
  /\ lockWaiting = [t \in Tasks |-> FALSE]

brokerVars == <<session, trie, retainedMsgs, packetIDSeq, pendingQoS1, pendingQoS2,
                qos2Received>>

\* the arguments and results of the matching functions
matchVars == <<filterGiven, nameGiven, matched>>

\* the six structures a rejected connection must leave alone
Structures == <<session, trie, retainedMsgs, pendingQoS1, pendingQoS2, qos2Received>>

\* the server and the broker as New and NewBroker leave them, but for the
\* count of connections being served
ConstructedWith(served) ==
  /\ pc = [k \in Conns |-> "idle"]
  /\ clientID = [k \in Conns |-> NoClient]
  /\ brokerSession = [k \in Conns |-> Nil]
  /\ isShuttingdown = FALSE
  /\ currentConnections = served
  /\ session = EmptyMap
  /\ trie = NewSubscriptionTree
  /\ retainedMsgs = EmptyMap
  /\ packetIDSeq = [hi |-> 0, lo |-> 0]
  /\ pendingQoS1 = EmptyMap
  /\ pendingQoS2 = EmptyMap
  /\ qos2Received = EmptyMap
  /\ crashed = FALSE
  /\ uuidSeq = 0
  /\ written = <<>>
  /\ ev = [op |-> "init", conn |-> 0, raw |-> <<>>, was |-> "idle"]
  /\ published = <<>>
  /\ inbound = [k \in Conns |-> EmptyMap]
  /\ dirty = [k \in Conns |-> FALSE]
  /\ now = 0
  /\ inflight = [k \in Conns |-> Nil]
  /\ LocksFree

\* the server and the broker as New and NewBroker leave them
Constructed == ConstructedWith(0)

Init ==
  /\ Constructed
  /\ filterGiven = <<>>
  /\ nameGiven = <<>>
  /\ matched = EmptyMap

\* the socket of connection k is open
Open(k) == pc[k] \in {"spawned", "await", "storing", "established", "publishing"}

\* the writes among out that reach an open socket
Delivered(out) == SelectSeq(out, LAMBDA w : Open(w.conn))

\* the broker's state as the operations above take it
BrokerState ==
  [retainedMsgs |-> retainedMsgs, packetIDSeq |-> packetIDSeq,
   pendingQoS1 |-> pendingQoS1, pendingQoS2 |-> pendingQoS2, out |-> <<>>,
   now |-> now]

\* what every step records about itself
Observe(k, op, raw) ==
  /\ ev' = [op |-> op, conn |-> k, raw |-> raw, was |-> pc[k]]
  /\ dirty' = [dirty EXCEPT ![k] = @ \/ Structures' # Structures]
  /\ UNCHANGED <<matchVars, now, inflight, lockVars>>

\* the identifier the next uuid.NewString() returns: it has a "-" in it
NextUUID == <<45, uuidSeq>>

\* what packet.Parse returns for each packet of the catalogue, for each
\* identifier uuid.NewString() may return at that moment
Parsed == [raw \in Inputs |-> [n \in 0..MaxUUID |-> Parse(raw, <<45, n>>)]]

\* packet.Parse(rawPacket) at line 175
Decode(raw) == Parsed[raw][uuidSeq]

\* the transport has read one whole packet: a first byte, a remaining length
\* of at most four bytes and exactly that many bytes after it
Framed(raw) ==
  /\ Len(raw) >= 2
  /\ parseRemainingLength(Slice(raw, 1, Len(raw))).err = "nil"
  /\ Len(raw) = 1 + parseRemainingLength(Slice(raw, 1, Len(raw))).offset
                  + parseRemainingLength(Slice(raw, 1, Len(raw))).length

FramedInputs == {raw \in Inputs : Framed(raw)}

\* the model stops allocating packet ids when the low half of the counter
\* reaches MaxPacketIDSeq
MayAllocate == packetIDSeq.lo < MaxPacketIDSeq

\* the packet is read by a live handler that is in its read loop
Reads(k, raw) ==
  /\ ~crashed
  /\ pc[k] \in {"await", "established"}
  /\ raw \in FramedInputs

\* handleConnection's deferred function (lines 97-107) when the handler
\* returns without having changed the trie or the QoS tables itself
Return(k) ==
  /\ pc' = [pc EXCEPT ![k] = "closed"]
  /\ currentConnections' = currentConnections - 1
  /\ trie' = IF clientID[k] # NoClient THEN UnsubscribeAll(trie, clientID[k]) ELSE trie
  /\ pendingQoS1' = IF clientID[k] # NoClient
                      THEN CleanupClient(pendingQoS1, clientID[k]) ELSE pendingQoS1
  /\ pendingQoS2' = IF clientID[k] # NoClient
                      THEN CleanupClient(pendingQoS2, clientID[k]) ELSE pendingQoS2
  /\ qos2Received' = IF clientID[k] # NoClient
                       THEN CleanupClient(qos2Received, clientID[k]) ELSE qos2Received
  /\ inbound' = [inbound EXCEPT ![k] = EmptyMap]
  /\ UNCHANGED <<clientID, brokerSession, isShuttingdown, session, retainedMsgs,
                 packetIDSeq, crashed, uuidSeq>>

\* TCPServer.sendAndClose of a CONNACK followed by the return
SendAndClose(k, returnCode) ==
  /\ written' = <<[conn |-> k, pkt |-> NewConnAck(FALSE, returnCode)]>>
  /\ published' = <<>>
  /\ Return(k)

\* --------------------------------------------------------------------------
\* The server: accepting and admitting connections
\* --------------------------------------------------------------------------

\* TCPServer.accept: the listener accepts the next connection and starts its
\* handler
AcceptConn(k) ==
  /\ ~crashed /\ ~isShuttingdown
  /\ pc[k] = "idle"
  /\ \A j \in Conns : j < k => pc[j] # "idle"
  /\ pc' = [pc EXCEPT ![k] = "spawned"]
  /\ written' = <<>> /\ published' = <<>>
  /\ UNCHANGED <<clientID, brokerSession, isShuttingdown, currentConnections,
                 brokerVars, crashed, uuidSeq, inbound>>
  /\ Observe(k, "accept", <<>>)

\* TCPServer.Stop
Stop ==
  /\ ~crashed /\ ~isShuttingdown
  /\ isShuttingdown' = TRUE
  /\ written' = <<>> /\ published' = <<>>
  /\ UNCHANGED <<pc, clientID, brokerSession, currentConnections, brokerVars,
                 crashed, uuidSeq, inbound, dirty, matchVars, now, inflight, lockVars>>
  /\ ev' = [op |-> "stop", conn |-> 0, raw |-> <<>>, was |-> "idle"]

\* TCPServer.checkServerAvailability
checkServerAvailability ==
  IF isShuttingdown THEN "server is shutting down"
  ELSE IF currentConnections >= maxConnections THEN "maximum connections exceeded"
  ELSE ""

\* handleConnection lines 110-115: the connection is refused
RejectConn(k) ==
  /\ ~crashed
  /\ pc[k] = "spawned"
  /\ checkServerAvailability # ""
  /\ SendAndClose(k, ServerUnavailable)
  /\ Observe(k, "reject", <<>>)

\* handleConnection lines 110-123: the connection is admitted
AdmitConn(k) ==
  /\ ~crashed
  /\ pc[k] = "spawned"
  /\ checkServerAvailability = ""
  /\ currentConnections' = currentConnections + 1
  /\ pc' = [pc EXCEPT ![k] = "await"]
  /\ written' = <<>> /\ published' = <<>>
  /\ UNCHANGED <<clientID, brokerSession, isShuttingdown, brokerVars, crashed,
                 uuidSeq, inbound>>
  /\ Observe(k, "admit", <<>>)

\* handleConnection lines 127-135, 149-153, 169-173: the peer has closed or a
\* read failed
ReadError(k) ==
  /\ ~crashed
  /\ pc[k] \in {"await", "established"}
  /\ written' = <<>> /\ published' = <<>>
  /\ Return(k)
  /\ Observe(k, "eof", <<>>)

\* handleConnection lines 143-148: a fifth remaining-length byte would be
\* needed
RemainingLengthTooLarge(k) ==
  /\ ~crashed
  /\ pc[k] \in {"await", "established"}
  /\ SendAndClose(k, UnacceptableProtocolVersion)
  /\ Observe(k, "toolarge", <<>>)

\* --------------------------------------------------------------------------
\* The server: a packet is read and decoded
\* --------------------------------------------------------------------------

\* the CONNACK return code handleConnection answers a Parse error with
\* (lines 179-195)
ParseErrorReturnCode(err) ==
  IF err \in {"ErrUnsupportedProtocolLevel", "ErrUnsupportedProtocolName"}
    THEN UnacceptableProtocolVersion
  ELSE IF err \in {"ErrInvalidCharsClientID", "ErrClientIDLengthExceed",
                   "ErrIdentifierRejected"}
    THEN IdentifierRejected
  ELSE IF err \in {"ErrPasswordWithoutUsername", "ErrMalformedUsernameField",
                   "ErrMalformedPasswordField"}
    THEN BadUsernameOrPassword
  ELSE IF err = "ErrInvalidPacketLength" THEN UnacceptableProtocolVersion
  ELSE ServerUnavailable

\* Parse panics: nothing recovers it, the process ends and with it every
\* connection; no deferred function of another goroutine runs
ParsePanic(k, raw) ==
  /\ Reads(k, raw)
  /\ Decode(raw).kind = "panic"
  /\ crashed' = TRUE
  /\ pc' = [j \in Conns |-> IF pc[j] = "idle" THEN "idle" ELSE "closed"]
  /\ written' = <<>> /\ published' = <<>>
  /\ UNCHANGED <<clientID, brokerSession, isShuttingdown, currentConnections,
                 brokerVars, uuidSeq, inbound>>
  /\ Observe(k, "panic", raw)

\* Parse returns an error (lines 176-196)
ParseError(k, raw) ==
  /\ Reads(k, raw)
  /\ Decode(raw).kind = "err"
  /\ SendAndClose(k, ParseErrorReturnCode(Decode(raw).err))
  /\ Observe(k, "packet", raw)

\* the first packet is not a CONNECT (lines 199-205)
ExpectedConnect(k, raw) ==
  /\ Reads(k, raw)
  /\ pc[k] = "await"
  /\ Decode(raw).kind = "pkt"
  /\ Decode(raw).Type # CONNECT
  /\ SendAndClose(k, UnacceptableProtocolVersion)
  /\ Observe(k, "packet", raw)

\* the CONNECT carries a username and a password (line 214)
WithCredentials(cp) == cp.UsernameFlag /\ cp.PasswordFlag

\* the CONNECT is refused by the credential check (lines 214-220)
AuthFailed(k, raw) ==
  /\ Reads(k, raw)
  /\ pc[k] = "await"
  /\ Decode(raw).kind = "pkt"
  /\ Decode(raw).Type = CONNECT
  /\ LET cp == Decode(raw).Connect IN
       /\ WithCredentials(cp)
       /\ Authenticate(cp.Username, cp.Password) # "nil"
  /\ SendAndClose(k, BadUsernameOrPassword)
  /\ Observe(k, "packet", raw)

\* a flag that reports every session the registry holds, whatever the
\* CONNECT's clean_session says: not what the handler computes
SessionPresentIgnoringClean(cleanSession, sessionExists) == sessionExists

\* the session_present flag of the CONNACK (lines 224-232)
SessionPresent(cleanSession, sessionExists) == ~cleanSession /\ sessionExists

\* the session built at lines 239-254
NewSession(cp, k) ==
  [ClientID |-> cp.ClientID, CleanSession |-> cp.CleanSession,
   WillTopic |-> cp.WillTopic, WillMessage |-> cp.WillMessage,
   WillQoS |-> cp.WillQoS, WillRetain |-> cp.WillRetain,
   KeepAlive |-> cp.KeepAlive, Conn |-> k]

\* the CONNECT is accepted: the registry is looked up, an existing session is
\* deleted on clean session, the CONNACK is written (lines 222-236)
ConnectAccepted(k, raw) ==
  /\ Reads(k, raw)
  /\ pc[k] = "await"
  /\ Decode(raw).kind = "pkt"
  /\ Decode(raw).Type = CONNECT
  /\ LET cp == Decode(raw).Connect
         sessionExists == cp.ClientID \in DOMAIN session
     IN
       /\ WithCredentials(cp) => Authenticate(cp.Username, cp.Password) = "nil"
       /\ cp.ClientID = NextUUID => uuidSeq < MaxUUID
       /\ uuidSeq' = IF cp.ClientID = NextUUID THEN uuidSeq + 1 ELSE uuidSeq
       /\ session' = IF cp.CleanSession /\ sessionExists
                       THEN Del(session, cp.ClientID) ELSE session
       /\ written' = <<[conn |-> k,
                        pkt |-> NewConnAck(SessionPresent(cp.CleanSession, sessionExists),
                                           ConnectionAccepted)]>>
       /\ brokerSession' = [brokerSession EXCEPT ![k] = NewSession(cp, k)]
  /\ pc' = [pc EXCEPT ![k] = "storing"]
  /\ published' = <<>>
  /\ UNCHANGED <<clientID, isShuttingdown, currentConnections, trie, retainedMsgs,
                 packetIDSeq, pendingQoS1, pendingQoS2, qos2Received, crashed, inbound>>
  /\ Observe(k, "packet", raw)

\* the session is stored and the handler goes back to reading (lines 255-257)
StoreSession(k) ==
  /\ ~crashed
  /\ pc[k] = "storing"
  /\ session' = Put(session, brokerSession[k].ClientID, brokerSession[k])
  /\ clientID' = [clientID EXCEPT ![k] = brokerSession[k].ClientID]
  /\ brokerSession' = [brokerSession EXCEPT ![k] = Nil]
  /\ pc' = [pc EXCEPT ![k] = "established"]
  /\ written' = <<>> /\ published' = <<>>
  /\ UNCHANGED <<isShuttingdown, currentConnections, trie, retainedMsgs, packetIDSeq,
                 pendingQoS1, pendingQoS2, qos2Received, crashed, uuidSeq, inbound>>
  /\ Observe(k, "store", <<>>)

\* --------------------------------------------------------------------------
\* The server: packets of an established connection
\* --------------------------------------------------------------------------

\* a packet was decoded on an established connection
Decoded(k, raw) ==
  /\ Reads(k, raw)
  /\ pc[k] = "established"
  /\ Decode(raw).kind = "pkt"

\* ... and the registry still has the session of the connection's client id
Serves(k, raw, type) ==
  /\ Decoded(k, raw)
  /\ clientID[k] \in DOMAIN session
  /\ Decode(raw).Type = type

\* the broker's state after an operation that returned st
Becomes(st) ==
  /\ retainedMsgs' = st.retainedMsgs
  /\ packetIDSeq' = st.packetIDSeq
  /\ pendingQoS1' = st.pendingQoS1
  /\ pendingQoS2' = st.pendingQoS2

\* the handler stays in its loop
Continues ==
  UNCHANGED <<pc, clientID, brokerSession, isShuttingdown, currentConnections,
              session, crashed, uuidSeq>>

\* the registry has no session for the connection's client id (lines 261-271)
SessionNotFound(k, raw) ==
  /\ Decoded(k, raw)
  /\ clientID[k] \notin DOMAIN session
  /\ written' = <<>> /\ published' = <<>>
  /\ Return(k)
  /\ Observe(k, "packet", raw)

\* PUBLISH with QoS 0 (lines 284-288)
OnPublishQoS0(k, raw) ==
  /\ Serves(k, raw, PUBLISH)
  /\ Decode(raw).Publish.QoS = QoSAtMostOnce
  /\ MayAllocate
  /\ LET p == Decode(raw).Publish
         r == HandlePublish(BrokerState, trie, p)
     IN /\ Becomes(r.st)
        /\ written' = Delivered(r.st.out)
        /\ published' = <<p>>
  /\ Continues
  /\ UNCHANGED <<trie, qos2Received, inbound>>
  /\ Observe(k, "packet", raw)

\* PUBLISH with QoS 1 (lines 290-306)
OnPublishQoS1(k, raw) ==
  /\ Serves(k, raw, PUBLISH)
  /\ Decode(raw).Publish.QoS = QoSAtLeastOnce
  /\ MayAllocate
  /\ LET p == Decode(raw).Publish
         r == HandlePublish(BrokerState, trie, p)
     IN /\ Becomes(r.st)
        /\ written' = Append(Delivered(r.st.out),
                             [conn |-> k, pkt |-> PubackPacketEncode(p.PacketID)])
        /\ published' = <<p>>
  /\ Continues
  /\ UNCHANGED <<trie, qos2Received, inbound>>
  /\ Observe(k, "packet", raw)

\* PUBLISH with QoS 2 (lines 308-320)
OnPublishQoS2(k, raw) ==
  /\ Serves(k, raw, PUBLISH)
  /\ Decode(raw).Publish.QoS = QoSExactlyOnce
  /\ LET p == Decode(raw).Publish IN
       /\ qos2Received' = HandleIncomingQoS2Publish(qos2Received, clientID[k],
                            p.PacketID, p.Topic, p.Payload, p.Retain, now)
       /\ written' = <<[conn |-> k, pkt |-> PubrecPacketEncode(p.PacketID)]>>
       /\ inbound' = [inbound EXCEPT ![k] =
                        IF p.PacketID \in DOMAIN @ THEN @
                        ELSE Put(@, p.PacketID,
                                 [Topic |-> p.Topic, Payload |-> p.Payload,
                                  Retain |-> p.Retain])]
  /\ published' = <<>>
  /\ Continues
  /\ UNCHANGED <<trie, retainedMsgs, packetIDSeq, pendingQoS1, pendingQoS2>>
  /\ Observe(k, "packet", raw)

\* PUBACK (lines 323-328, QoSManager.HandlePubAck)
OnPuback(k, raw) ==
  /\ Serves(k, raw, PUBACK)
  /\ pendingQoS1' = Del(pendingQoS1, <<clientID[k], Decode(raw).PacketID>>)
  /\ written' = <<>> /\ published' = <<>>
  /\ Continues
  /\ UNCHANGED <<trie, retainedMsgs, packetIDSeq, pendingQoS2, qos2Received, inbound>>
  /\ Observe(k, "packet", raw)

\* PUBREC (lines 330-342)
OnPubrec(k, raw) ==
  /\ Serves(k, raw, PUBREC)
  /\ LET packetID == Decode(raw).PacketID
         r == HandlePubRec(pendingQoS2, qos2Received, clientID[k], packetID, now)
     IN /\ pendingQoS2' = r.pending
        /\ qos2Received' = r.received
        /\ written' = IF r.pubrel
                        THEN <<[conn |-> k, pkt |-> PubrelPacketEncode(packetID)]>>
                        ELSE <<>>
  /\ published' = <<>>
  /\ Continues
  /\ UNCHANGED <<trie, retainedMsgs, packetIDSeq, pendingQoS1, inbound>>
  /\ Observe(k, "packet", raw)

\* PUBREL (lines 344-359, Broker.HandleIncomingPubRel)
OnPubrel(k, raw) ==
  /\ Serves(k, raw, PUBREL)
  /\ MayAllocate
  /\ LET packetID == Decode(raw).PacketID
         key == <<clientID[k], packetID>>
         pubcomp == [conn |-> k, pkt |-> PubcompPacketEncode(packetID)]
     IN /\ IF key \in DOMAIN qos2Received
             THEN LET publishPacket ==
                        [DUP |-> FALSE, QoS |-> QoSExactlyOnce,
                         Retain |-> qos2Received[key].Retain,
                         Topic |-> qos2Received[key].Topic, PacketID |-> 0,
                         Payload |-> qos2Received[key].Payload]
                      r == HandlePublish(BrokerState, trie, publishPacket)
                  IN /\ qos2Received' = Del(qos2Received, key)
                     /\ Becomes(r.st)
                     /\ written' = Append(Delivered(r.st.out), pubcomp)
                     /\ published' = <<publishPacket>>
             ELSE /\ UNCHANGED <<qos2Received, retainedMsgs, packetIDSeq, pendingQoS1,
                                 pendingQoS2>>
                  /\ written' = <<pubcomp>>
                  /\ published' = <<>>
        /\ inbound' = [inbound EXCEPT ![k] = Del(@, packetID)]
  /\ Continues
  /\ UNCHANGED trie
  /\ Observe(k, "packet", raw)

\* PUBCOMP (lines 361-366, QoSManager.HandlePubComp)
OnPubcomp(k, raw) ==
  /\ Serves(k, raw, PUBCOMP)
  /\ qos2Received' = Del(qos2Received, <<clientID[k], Decode(raw).PacketID>>)
  /\ written' = <<>> /\ published' = <<>>
  /\ Continues
  /\ UNCHANGED <<trie, retainedMsgs, packetIDSeq, pendingQoS1, pendingQoS2, inbound>>
  /\ Observe(k, "packet", raw)

\* SUBSCRIBE (lines 368-386): the retained messages are sent while the
\* filters are processed, the SUBACK after them
OnSubscribe(k, raw) ==
  /\ Serves(k, raw, SUBSCRIBE)
  /\ MayAllocate
  /\ LET p == Decode(raw)
         r == HandleSubscribe(BrokerState, trie, session[clientID[k]], p)
     IN /\ trie' = r.trie
        /\ Becomes(r.st)
        /\ written' = Append(Delivered(r.st.out),
                             [conn |-> k,
                              pkt |-> SubackPacketEncode(p.PacketID, r.returnCodes)])
  /\ published' = <<>>
  /\ Continues
  /\ UNCHANGED <<qos2Received, inbound>>
  /\ Observe(k, "packet", raw)

\* UNSUBSCRIBE (lines 388-406)
OnUnsubscribe(k, raw) ==
  /\ Serves(k, raw, UNSUBSCRIBE)
  /\ LET p == Decode(raw) IN
       /\ trie' = HandleUnsubscribe(trie, clientID[k], p.TopicFilters)
       /\ written' = <<[conn |-> k, pkt |-> UnsubackPacketEncode(p.PacketID)]>>
  /\ published' = <<>>
  /\ Continues
  /\ UNCHANGED <<retainedMsgs, packetIDSeq, pendingQoS1, pendingQoS2, qos2Received,
                 inbound>>
  /\ Observe(k, "packet", raw)

\* PINGREQ (lines 408-414)
OnPingreq(k, raw) ==
  /\ Serves(k, raw, PINGREQ)
  /\ written' = <<[conn |-> k, pkt |-> PingrespPacketEncode]>>
  /\ published' = <<>>
  /\ Continues
  /\ UNCHANGED <<trie, retainedMsgs, packetIDSeq, pendingQoS1, pendingQoS2,
                 qos2Received, inbound>>
  /\ Observe(k, "packet", raw)

\* SUBACK and UNSUBACK are logged and nothing else (lines 416-430)
OnSubackOrUnsuback(k, raw) ==
  /\ Decoded(k, raw)
  /\ clientID[k] \in DOMAIN session
  /\ Decode(raw).Type \in {SUBACK, UNSUBACK}
  /\ written' = <<>> /\ published' = <<>>
  /\ Continues
  /\ UNCHANGED <<trie, retainedMsgs, packetIDSeq, pendingQoS1, pendingQoS2,
                 qos2Received, inbound>>
  /\ Observe(k, "packet", raw)

\* DISCONNECT (lines 432-441): Broker.HandleClientDisconnect, then the close
\* and the deferred function, which runs HandleClientDisconnect again
OnDisconnect(k, raw) ==
  /\ Serves(k, raw, DISCONNECT)
  /\ written' = <<>> /\ published' = <<>>
  /\ Return(k)
  /\ Observe(k, "packet", raw)

\* a default case that takes a second CONNECT for a new session and stores
\* it, and closes on everything else: not what the broker does
UnhandledStoringSession(k, raw) ==
  /\ Decoded(k, raw)
  /\ clientID[k] \in DOMAIN session
  /\ Decode(raw).Type \notin
       {PUBLISH, PUBACK, PUBREC, PUBREL, PUBCOMP, SUBSCRIBE, UNSUBSCRIBE, PINGREQ,
        SUBACK, UNSUBACK, DISCONNECT}
  /\ IF Decode(raw).Type = CONNECT
       THEN /\ session' = Put(session, Decode(raw).Connect.ClientID,
                              NewSession(Decode(raw).Connect, k))
            /\ written' = <<[conn |-> k, pkt |-> NewConnAck(FALSE, ConnectionAccepted)]>>
            /\ published' = <<>>
            /\ UNCHANGED <<pc, clientID, brokerSession, isShuttingdown,
                           currentConnections, trie, retainedMsgs, packetIDSeq,
                           pendingQoS1, pendingQoS2, qos2Received, crashed, uuidSeq,
                           inbound>>
       ELSE SendAndClose(k, UnacceptableProtocolVersion)
  /\ Observe(k, "packet", raw)

\* any other decoded packet, a second CONNECT among them (lines 443-449)
Unhandled(k, raw) ==
  /\ Decoded(k, raw)
  /\ clientID[k] \in DOMAIN session
  /\ Decode(raw).Type \notin
       {PUBLISH, PUBACK, PUBREC, PUBREL, PUBCOMP, SUBSCRIBE, UNSUBSCRIBE, PINGREQ,
        SUBACK, UNSUBACK, DISCONNECT}
  /\ SendAndClose(k, UnacceptableProtocolVersion)
  /\ Observe(k, "packet", raw)

\* --------------------------------------------------------------------------
\* Broker.HandlePublish in two steps
\* --------------------------------------------------------------------------

\* PUBLISH with QoS 0 or 1, up to the return of SubscriptionTree.Match in
\* Broker.HandlePublish (part_004 lines 124-141): the tree's lock is
\* released with the matches in hand
PublishMatch(k, raw) ==
  /\ Serves(k, raw, PUBLISH)
  /\ Decode(raw).Publish.QoS # QoSExactlyOnce
  /\ ValidateTopicName(Decode(raw).Publish.Topic) = "nil"
  /\ MayAllocate
  /\ LET p == Decode(raw).Publish IN
       /\ retainedMsgs' = IF p.Retain THEN handleRetainedMessage(retainedMsgs, p)
                          ELSE retainedMsgs
       /\ inflight' = [inflight EXCEPT ![k] =
                         [matches |-> Match(trie, p.Topic), publishPacket |-> p]]
  /\ pc' = [pc EXCEPT ![k] = "publishing"]
  /\ written' = <<>> /\ published' = <<>>
  /\ ev' = [op |-> "match", conn |-> k, raw |-> raw, was |-> pc[k]]
  /\ dirty' = [dirty EXCEPT ![k] = @ \/ Structures' # Structures]
  /\ UNCHANGED <<clientID, brokerSession, isShuttingdown, currentConnections, session,
                 trie, packetIDSeq, pendingQoS1, pendingQoS2, qos2Received, crashed,
                 uuidSeq, inbound, matchVars, now, lockVars>>

\* ... and from there on: the loop over the matches (part_004 lines 143-150),
\* then the PUBACK of a QoS 1 PUBLISH (tcp.go lines 290-306)
PublishDeliver(k) ==
  /\ ~crashed
  /\ pc[k] = "publishing"
  /\ LET p == inflight[k].publishPacket
         st == DeliverToMatches(BrokerState, inflight[k].matches, p)
     IN /\ Becomes(st)
        /\ written' = IF p.QoS = QoSAtLeastOnce
                        THEN Append(Delivered(st.out),
                                    [conn |-> k, pkt |-> PubackPacketEncode(p.PacketID)])
                        ELSE Delivered(st.out)
        /\ published' = <<p>>
  /\ pc' = [pc EXCEPT ![k] = "established"]
  /\ inflight' = [inflight EXCEPT ![k] = Nil]
  /\ UNCHANGED lockVars
  /\ ev' = [op |-> "deliver", conn |-> k, raw |-> <<>>, was |-> pc[k]]
  /\ dirty' = [dirty EXCEPT ![k] = @ \/ Structures' # Structures]
  /\ UNCHANGED <<clientID, brokerSession, isShuttingdown, currentConnections, session,
                 trie, qos2Received, crashed, uuidSeq, inbound, matchVars, now, lockVars>>

\* --------------------------------------------------------------------------
\* The retry goroutine and the clock
\* --------------------------------------------------------------------------

\* QoSManager.retryLoop: the ticker fires at the next multiple of its period
\* and the loop runs processRetries and cleanupTimedOutMessages
RetryTick ==
  /\ ~crashed
  /\ LET at == (now \div RetryTickerPeriod + 1) * RetryTickerPeriod
         r == processRetries(pendingQoS1, pendingQoS2, at)
     IN /\ at <= MaxNow
        /\ now' = at
        /\ pendingQoS1' = r.pendingQoS1
        /\ pendingQoS2' = r.pendingQoS2
        /\ qos2Received' = cleanupTimedOutMessages(qos2Received, at)
        /\ written' = Delivered(r.out)
  /\ published' = <<>>
  /\ ev' = [op |-> "tick", conn |-> 0, raw |-> <<>>, was |-> "idle"]
  /\ UNCHANGED <<pc, clientID, brokerSession, isShuttingdown, currentConnections,
                 session, trie, retainedMsgs, packetIDSeq, crashed, uuidSeq, inbound,
                 dirty, matchVars, inflight, lockVars>>

\* time passes from the moment of a tick to a moment before the next one
TimePasses ==
  /\ now % RetryTickerPeriod = 0
  /\ now + TimeStep <= MaxNow
  /\ now' = now + TimeStep
  /\ written' = <<>> /\ published' = <<>>
  /\ ev' = [op |-> "time", conn |-> 0, raw |-> <<>>, was |-> "idle"]
  /\ UNCHANGED <<pc, clientID, brokerSession, isShuttingdown, currentConnections,
                 brokerVars, crashed, uuidSeq, inbound, dirty, matchVars, inflight, lockVars>>

\* --------------------------------------------------------------------------
\* Specifications.  Each one lets the clients send the packets of one
\* scenario; its next-state relation has the handler's branches those
\* packets can take.
\* --------------------------------------------------------------------------

\* Sessions: connections that say CONNECT, with and without credentials and
\* clean session, stay for a while and leave
SessionSends ==
  {ConnectA1, ConnectA0, ConnectRightPassword, ConnectWrongPassword,
   ConnectUnknownUser, <<PINGREQ, 0>>, <<DISCONNECT, 0>>}

Next ==
  \/ Stop
  \/ \E k \in Conns :
       \/ AcceptConn(k)
       \/ RejectConn(k)
       \/ AdmitConn(k)
       \/ ReadError(k)
       \/ StoreSession(k)
       \/ \E raw \in SessionSends :
            \/ ExpectedConnect(k, raw)
            \/ AuthFailed(k, raw)
            \/ ConnectAccepted(k, raw)
            \/ SessionNotFound(k, raw)
            \/ OnPingreq(k, raw)
            \/ OnDisconnect(k, raw)
            \/ Unhandled(k, raw)

Spec == Init /\ [][Next]_vars

\* the handler goroutines are scheduled: a step a handler can take without
\* the client doing anything is eventually taken.  Nothing makes a client
\* send a packet or end its connection.
FairSpec ==
  Spec /\ \A k \in Conns : WF_vars(RejectConn(k) \/ AdmitConn(k) \/ StoreSession(k))

\* QoS 2: publishers and subscribers exchanging QoS 2 messages
QoS2First == {ConnectA1, ConnectB1}
QoS2Later ==
  {MkSubscribe(1, FilterAll, 2),
   MkPublish(2, TRUE, 1, TopicT, PayloadX),
   MkPublish(2, FALSE, 1, TopicEmptyLevel, PayloadY),
   PubrelPacketEncode(1), PubcompPacketEncode(1)}

NextQoS2 ==
  \E k \in Conns :
    \/ AcceptConn(k)
    \/ AdmitConn(k)
    \/ ReadError(k)
    \/ StoreSession(k)
    \/ \E raw \in QoS2First : ConnectAccepted(k, raw)
    \/ \E raw \in QoS2Later :
         \/ SessionNotFound(k, raw)
         \/ OnPublishQoS2(k, raw)
         \/ OnPubrel(k, raw)
         \/ OnPubcomp(k, raw)
         \/ OnSubscribe(k, raw)

SpecQoS2 == Init /\ [][NextQoS2]_vars

\* Rejections: first packets of every kind, and what an established
\* connection does after them
RejectFirst ==
  {ConnectA1, ConnectAnonymous, ConnectUnknownUser, ConnectNoClientID}
    \cup BadConnects \cup OtherTypes \cup Malformed \cup {SubackNoPacketID}
RejectLater == {ConnectA1, MkSubscribe(1, FilterAll, 2), <<PINGREQ, 0>>}

NextReject ==
  \/ Stop
  \/ \E k \in Conns :
       \/ AcceptConn(k)
       \/ RejectConn(k)
       \/ AdmitConn(k)
       \/ ReadError(k)
       \/ RemainingLengthTooLarge(k)
       \/ StoreSession(k)
       \/ \E raw \in RejectFirst :
            \/ ParsePanic(k, raw)
            \/ ParseError(k, raw)
            \/ ExpectedConnect(k, raw)
            \/ AuthFailed(k, raw)
            \/ ConnectAccepted(k, raw)
       \/ \E raw \in RejectLater :
            \/ SessionNotFound(k, raw)
            \/ OnSubscribe(k, raw)
            \/ OnPingreq(k, raw)
            \/ Unhandled(k, raw)

SpecReject == Init /\ [][NextReject]_vars

\* Subscriptions: clients that subscribe with good and bad filters while
\* the retained store fills
SubscriptionFirst == {ConnectA1, ConnectB1}
SubscriptionLater == Subscribes \cup {RetainX, RetainY}

NextSubscription ==
  \E k \in Conns :
    \/ AcceptConn(k)
    \/ AdmitConn(k)
    \/ StoreSession(k)
    \/ \E raw \in SubscriptionFirst : ConnectAccepted(k, raw)
    \/ \E raw \in SubscriptionLater :
         \/ ParseError(k, raw)
         \/ SessionNotFound(k, raw)
         \/ OnPublishQoS0(k, raw)
         \/ OnPublishQoS1(k, raw)
         \/ OnSubscribe(k, raw)

SpecSubscription == Init /\ [][NextSubscription]_vars

\* Retained messages: clients that publish retained and plain messages at
\* QoS 0 and 1 to subscribers of either QoS
RetainedFirst == {ConnectA1, ConnectB1}
RetainedLater ==
  SubscriptionPublishes
    \cup {MkSubscribe(1, TopicT, 0), MkSubscribe(1, FilterAll, 2), PubackPacketEncode(1)}

NextRetained ==
  \E k \in Conns :
    \/ AcceptConn(k)
    \/ AdmitConn(k)
    \/ StoreSession(k)
    \/ \E raw \in RetainedFirst : ConnectAccepted(k, raw)
    \/ \E raw \in RetainedLater :
         \/ SessionNotFound(k, raw)
         \/ OnPublishQoS0(k, raw)
         \/ OnPublishQoS1(k, raw)
         \/ OnPuback(k, raw)
         \/ OnSubscribe(k, raw)

SpecRetained == Init /\ [][NextRetained]_vars

\* Delivery: publishers of every QoS and subscribers granted QoS 1 and 2;
\* the first connection is client a's, the others are client b's
DeliveryFirst(k) == IF k = 1 THEN ConnectA1 ELSE ConnectB1
DeliveryLater ==
  DeliveryPublishes
    \cup {MkSubscribe(1, TopicT, 1), MkSubscribe(1, FilterAll, 2), PubrelPacketEncode(1)}

NextDelivery ==
  \E k \in Conns :
    \/ AcceptConn(k)
    \/ AdmitConn(k)
    \/ StoreSession(k)
    \/ ConnectAccepted(k, DeliveryFirst(k))
    \/ \E raw \in DeliveryLater :
         \/ OnPublishQoS0(k, raw)
         \/ OnPublishQoS1(k, raw)
         \/ OnPublishQoS2(k, raw)
         \/ OnPubrel(k, raw)
         \/ OnSubscribe(k, raw)

SpecDelivery == Init /\ [][NextDelivery]_vars

\* Outbound QoS 2: a subscriber granted QoS 2 that answers, or not, the
\* messages it is sent
OutboundFirst == {ConnectA1, ConnectB1}
OutboundLater ==
  {MkSubscribe(1, FilterAll, 2), PlainQoS2, PubrelPacketEncode(1),
   PubackPacketEncode(1), PubrecPacketEncode(1), PubcompPacketEncode(1)}

NextOutbound ==
  \E k \in Conns :
    \/ AcceptConn(k)
    \/ AdmitConn(k)
    \/ StoreSession(k)
    \/ \E raw \in OutboundFirst : ConnectAccepted(k, raw)
    \/ \E raw \in OutboundLater :
         \/ SessionNotFound(k, raw)
         \/ OnPublishQoS2(k, raw)
         \/ OnPubrel(k, raw)
         \/ OnSubscribe(k, raw)
         \/ OnPuback(k, raw)
         \/ OnPubrec(k, raw)
         \/ OnPubcomp(k, raw)

SpecOutbound == Init /\ [][NextOutbound]_vars

\* Retries: one client, subscribed at QoS 2, that publishes to itself and
\* acknowledges nothing it is sent, while the retry ticker fires; the
\* client sends its packets in the first LastSend seconds
RetryFirst == {ConnectA1}
RetryLater == {MkSubscribe(1, FilterAll, 2), PlainY, PlainQoS2, PubrelPacketEncode(1)}

NextRetry ==
  \/ RetryTick
  \/ now < LastSend /\ TimePasses
  \/ \E k \in {1} :
       /\ now <= LastSend
       /\ \/ AcceptConn(k)
          \/ AdmitConn(k)
          \/ StoreSession(k)
          \/ \E raw \in RetryFirst : ConnectAccepted(k, raw)
          \/ \E raw \in RetryLater :
               \/ OnPublishQoS1(k, raw)
               \/ OnPublishQoS2(k, raw)
               \/ OnPubrel(k, raw)
               \/ OnSubscribe(k, raw)

SpecRetry == Init /\ [][NextRetry]_vars

\* the ticker fires every ten seconds for as long as the broker runs
FairSpecRetry == SpecRetry /\ WF_vars(RetryTick)

\* Disconnection while others publish: the handlers of two clients run
\* side by side, HandlePublish in its two steps, and a connection may end at
\* any moment
RaceFirst == {ConnectA1, ConnectB1}
RaceLater == {MkSubscribe(1, TopicT, 1), PlainY, PlainQoS0}

NextRace ==
  \E k \in Conns :
       \/ AcceptConn(k)
       \/ AdmitConn(k)
       \/ StoreSession(k)
       \/ ReadError(k)
       \/ PublishDeliver(k)
       \/ \E raw \in RaceFirst : ConnectAccepted(k, raw)
       \/ \E raw \in RaceLater :
            \/ SessionNotFound(k, raw)
            \/ OnSubscribe(k, raw)
            \/ PublishMatch(k, raw)

SpecRace == Init /\ [][NextRace]_vars

\* Departures: subscribers, one of them with a Will, that disconnect or
\* whose connection ends, while messages are published
DepartureFirst == {ConnectWillA, ConnectB1}
DepartureLater ==
  {MkSubscribe(1, TopicT, 1), MkSubscribe(1, FilterAll, 2), PlainQoS0, <<DISCONNECT, 0>>}

NextDeparture ==
  \E k \in Conns :
    \/ AcceptConn(k)
    \/ AdmitConn(k)
    \/ ReadError(k)
    \/ StoreSession(k)
    \/ \E raw \in DepartureFirst : ConnectAccepted(k, raw)
    \/ \E raw \in DepartureLater :
         \/ SessionNotFound(k, raw)
         \/ OnPublishQoS0(k, raw)
         \/ OnSubscribe(k, raw)
         \/ OnDisconnect(k, raw)

SpecDeparture == Init /\ [][NextDeparture]_vars

\* The connection cap: the server when maxConnections connections have been
\* admitted and are being served; those stay open and silent, and further
\* connections arrive
ServedElsewhere == maxConnections

InitCap ==
  /\ ConstructedWith(ServedElsewhere)
  /\ filterGiven = <<>>
  /\ nameGiven = <<>>
  /\ matched = EmptyMap

CapFirst == GoodConnects \cup {ConnectB1}
CapLater ==
  {<<PINGREQ, 0>>, <<DISCONNECT, 0>>, MkSubscribe(1, TopicT, 1),
   MkSubscribe(1, FilterAll, 2), PlainQoS0}

NextCap ==
  \E k \in Conns :
    \/ AcceptConn(k)
    \/ RejectConn(k)
    \/ AdmitConn(k)
    \/ ReadError(k)
    \/ StoreSession(k)
    \/ \E raw \in CapFirst :
         \/ AuthFailed(k, raw)
         \/ ConnectAccepted(k, raw)
    \/ \E raw \in CapLater :
         \/ OnPingreq(k, raw)
         \/ OnPublishQoS0(k, raw)
         \/ OnSubscribe(k, raw)
         \/ OnDisconnect(k, raw)

SpecCap == InitCap /\ [][NextCap]_vars

\* Overlapping subscriptions: clients that subscribe to filters that match
\* the same topic, and to the same filter again with another QoS, while
\* messages are published
OverlapFirst == {ConnectA1, ConnectB1}
OverlapSubscribes ==
  {MkSubscribe(1, TopicT, 0), MkSubscribe(1, TopicT, 1), MkSubscribe(1, FilterAll, 2),
   MkSubscribeFilters(6, <<[Topic |-> FilterUnder, QoS |-> 2]>>)}
OverlapLater == OverlapSubscribes \cup {PlainQoS0}

NextOverlap ==
  \E k \in Conns :
    \/ AcceptConn(k)
    \/ AdmitConn(k)
    \/ StoreSession(k)
    \/ \E raw \in OverlapFirst : ConnectAccepted(k, raw)
    \/ \E raw \in OverlapLater :
         \/ SessionNotFound(k, raw)
         \/ OnPublishQoS0(k, raw)
         \/ OnSubscribe(k, raw)

SpecOverlap == Init /\ [][NextOverlap]_vars

\* Matching: TopicMatches and SubscriptionTree.Match applied to the filters
\* and names of up to MaxLevels levels over two level names, and to the
\* filters and names of a sports feed
MaxLevels == 3

RECURSIVE Join(_)
Join(levels) ==
  IF Len(levels) = 1 THEN Head(levels)
  ELSE Head(levels) \o <<Ch.Slash>> \o Join(Tail(levels))

Sport == <<115, 112, 111, 114, 116>>
Tennis == <<116, 101, 110, 110, 105, 115>>
Player1 == <<112, 108, 97, 121, 101, 114, 49>>
Player2 == <<112, 108, 97, 121, 101, 114, 50>>
Ranking == <<114, 97, 110, 107, 105, 110, 103>>

NameLevels == {IdA, IdB}

\* the sequences of n levels, for every n from least to most
LevelSeqs(levels, least, most) == UNION {[1..n -> levels] : n \in least..most}

MatchNames ==
  {Join(l) : l \in LevelSeqs(NameLevels, 1, MaxLevels)}
    \cup {Join(<<Sport>>), Join(<<Sport, Tennis, Player1>>),
          Join(<<Sport, Tennis, Player2>>),
          Join(<<Sport, Tennis, Player1, Ranking>>)}

MatchFilters ==
  {Join(l) : l \in LevelSeqs(NameLevels \cup {LevelPlus}, 1, MaxLevels)}
    \cup {Join(Append(l, LevelHash)) :
            l \in LevelSeqs(NameLevels \cup {LevelPlus}, 0, MaxLevels - 1)}
    \cup {Join(<<Sport, LevelPlus, Player1>>), Join(<<Sport, LevelHash>>)}

InitMatch ==
  /\ Constructed
  /\ filterGiven \in MatchFilters
  /\ nameGiven \in MatchNames
  /\ matched = EmptyMap

\* TopicMatches(filterGiven, nameGiven)
ApplyTopicMatches ==
  /\ "TopicMatches" \notin DOMAIN matched
  /\ matched' = Put(matched, "TopicMatches", TopicMatches(filterGiven, nameGiven))
  /\ UNCHANGED <<pc, clientID, brokerSession, isShuttingdown, currentConnections,
                 brokerVars, crashed, uuidSeq, written, ev, published, inbound, dirty,
                 filterGiven, nameGiven, now, inflight, lockVars>>

\* Match(nameGiven) on a tree whose one subscription is to filterGiven
ApplyMatch ==
  /\ "Match" \notin DOMAIN matched
  /\ matched' = Put(matched, "Match",
                    Match(TreeSubscribe(NewSubscriptionTree, IdA, 1, filterGiven,
                                        QoSAtMostOnce).trie,
                          nameGiven))
  /\ UNCHANGED <<pc, clientID, brokerSession, isShuttingdown, currentConnections,
                 brokerVars, crashed, uuidSeq, written, ev, published, inbound, dirty,
                 filterGiven, nameGiven, now, inflight, lockVars>>

NextMatch == ApplyTopicMatches \/ ApplyMatch

SpecMatch == InitMatch /\ [][NextMatch]_vars

\* The trie by itself: Subscribe and Unsubscribe applied in any order to the
\* tree NewSubscriptionTree returns, for two clients.  Subscribe is given
\* filters it accepts and filters it refuses; Unsubscribe is given the filters
\* an UNSUBSCRIBE packet can carry (ParseUnsubscribe validates them).
FilterBelow == <<Ch.a, Ch.Slash, Ch.b>>
FilterPlusBelow == <<Ch.Plus, Ch.Slash, Ch.b>>

TrieFilters ==
  {TopicT, FilterBelow, FilterUnder, FilterPlusBelow, FilterAll, TopicB,
   TopicEmptyLevel, FilterHashInside}

TrieSubscribeFilters == TrieFilters \ {TopicB}
TrieUnsubscribeFilters == {f \in TrieFilters : validateTopicFilter(f) = "nil"}

ClientOf(k) == IF k = 1 THEN IdA ELSE IdB

\* st.Subscribe(ClientOf(k), session, f, qos, handler)
TrieSubscribe(k, f, qos) ==
  /\ trie' = TreeSubscribe(trie, ClientOf(k), k, f, qos).trie
  /\ ev' = [raw |-> f, conn |-> k, op |-> "Subscribe", was |-> "idle"]
  /\ UNCHANGED <<pc, clientID, brokerSession, isShuttingdown, currentConnections,
                 session, retainedMsgs, packetIDSeq, pendingQoS1, pendingQoS2,
                 qos2Received, crashed, uuidSeq, written, published, inbound, dirty,
                 matchVars, now, inflight, lockVars>>

\* st.Unsubscribe(ClientOf(k), f)
TrieUnsubscribe(k, f) ==
  /\ trie' = TreeUnsubscribe(trie, ClientOf(k), f)
  /\ ev' = [raw |-> f, conn |-> k, op |-> "Unsubscribe", was |-> "idle"]
  /\ UNCHANGED <<pc, clientID, brokerSession, isShuttingdown, currentConnections,
                 session, retainedMsgs, packetIDSeq, pendingQoS1, pendingQoS2,
                 qos2Received, crashed, uuidSeq, written, published, inbound, dirty,
                 matchVars, now, inflight, lockVars>>

NextTrie ==
  \E k \in {1, 2} :
    \/ \E f \in TrieSubscribeFilters : TrieSubscribe(k, f, QoSAtLeastOnce)
    \/ \E f \in TrieUnsubscribeFilters : TrieUnsubscribe(k, f)

SpecTrie == Init /\ [][NextTrie]_vars

\* The packet ids come round: the broker 20 seconds into a busy period.
\* Client a on connection 1 subscribes to "a" at QoS 2, client b is on
\* connection 2.  The first delivery to a, with packet id 1, is unfinished: not
\* acknowledged (QoS 1), not received (QoS 2) or not completed (QoS 2, PUBREC
\* answered); the 65535 deliveries after it have been acknowledged, so that
\* packetIDSeq is 65536.
WrapSince == 20

WrapFlow(qos) ==
  AddPending(EmptyMap,
             PendingMessage(1, [ClientID |-> IdA, Conn |-> 1], TopicT, PayloadX, qos, FALSE),
             0)

InitWrap ==
  /\ \E flowAt \in {"qos1", "qos2", "pubcomp"} :
       /\ pendingQoS1 = IF flowAt = "qos1" THEN WrapFlow(QoSAtLeastOnce) ELSE EmptyMap
       /\ pendingQoS2 = IF flowAt = "qos2" THEN WrapFlow(QoSExactlyOnce) ELSE EmptyMap
       /\ qos2Received =
            IF flowAt = "pubcomp"
              THEN HandlePubRec(WrapFlow(QoSExactlyOnce), EmptyMap, IdA, 1, 0).received
              ELSE EmptyMap
  /\ packetIDSeq = [hi |-> 1, lo |-> 0]
  /\ now = WrapSince
  /\ pc = [k \in Conns |-> IF k \in {1, 2} THEN "established" ELSE "idle"]
  /\ clientID = [k \in Conns |-> IF k \in {1, 2} THEN ClientOf(k) ELSE NoClient]
  /\ session = [c \in {IdA, IdB} |->
                  NewSession(Parsed[IF c = IdA THEN ConnectA1 ELSE ConnectB1][0].Connect,
                             IF c = IdA THEN 1 ELSE 2)]
  /\ trie = TreeSubscribe(NewSubscriptionTree, IdA, 1, TopicT, QoSExactlyOnce).trie
  /\ dirty = [k \in Conns |-> k \in {1, 2}]
  /\ currentConnections = 2
  /\ brokerSession = [k \in Conns |-> Nil]
  /\ isShuttingdown = FALSE
  /\ retainedMsgs = EmptyMap
  /\ crashed = FALSE
  /\ uuidSeq = 0
  /\ written = <<>>
  /\ ev = [op |-> "init", conn |-> 0, raw |-> <<>>, was |-> "idle"]
  /\ published = <<>>
  /\ inbound = [k \in Conns |-> EmptyMap]
  /\ inflight = [k \in Conns |-> Nil]
  /\ LocksFree
  /\ filterGiven = <<>>
  /\ nameGiven = <<>>
  /\ matched = EmptyMap

WrapLater ==
  {PlainQoS0, PlainY, PubackPacketEncode(1), PubrecPacketEncode(1),
   PubcompPacketEncode(1), <<DISCONNECT, 0>>}

NextWrap ==
  \E k \in Conns :
    \/ ReadError(k)
    \/ \E raw \in WrapLater :
         \/ OnPublishQoS0(k, raw)
         \/ OnPublishQoS1(k, raw)
         \/ OnPuback(k, raw)
         \/ OnPubrec(k, raw)
         \/ OnPubcomp(k, raw)
         \/ OnDisconnect(k, raw)

SpecWrap == InitWrap /\ [][NextWrap]_vars

\* The packet id counter by itself: generatePacketID applied, up to
\* MaxAllocations times, to counters that are within SeqMargin of a multiple
\* of 65536, among them 0, 65536 and 2^32
SeqMargin == 12
MaxAllocations == 3

SeqValues ==
  {[hi |-> h, lo |-> l] :
     h \in {0, 1, 2, TwoTo16 - 1},
     l \in (0..SeqMargin) \cup ((TwoTo16 - 1 - SeqMargin)..(TwoTo16 - 1))}

InitSeq ==
  /\ pc = [k \in Conns |-> "idle"]
  /\ clientID = [k \in Conns |-> NoClient]
  /\ brokerSession = [k \in Conns |-> Nil]
  /\ isShuttingdown = FALSE
  /\ currentConnections = 0
  /\ session = EmptyMap
  /\ trie = NewSubscriptionTree
  /\ retainedMsgs = EmptyMap
  /\ packetIDSeq \in SeqValues
  /\ pendingQoS1 = EmptyMap
  /\ pendingQoS2 = EmptyMap
  /\ qos2Received = EmptyMap
  /\ crashed = FALSE
  /\ uuidSeq = 0
  /\ written = <<>>
  /\ ev = [op |-> "init", conn |-> 0, raw |-> <<>>, was |-> "idle"]
  /\ published = <<>>
  /\ inbound = [k \in Conns |-> EmptyMap]
  /\ dirty = [k \in Conns |-> FALSE]
  /\ now = 0
  /\ inflight = [k \in Conns |-> Nil]
  /\ LocksFree
  /\ filterGiven = <<>>
  /\ nameGiven = <<>>
  /\ matched = ("allocations" :> 0)

\* packetID := b.generatePacketID()
ApplyGeneratePacketID ==
  /\ matched["allocations"] < MaxAllocations
  /\ LET g == generatePacketID(packetIDSeq) IN
       /\ packetIDSeq' = g.seq
       /\ matched' = Put(Put(matched, "allocations", matched["allocations"] + 1),
                         "packetID", g.packetID)
  /\ UNCHANGED <<pc, clientID, brokerSession, isShuttingdown, currentConnections,
                 session, trie, retainedMsgs, pendingQoS1, pendingQoS2, qos2Received,
                 crashed, uuidSeq, written, ev, published, inbound, dirty, filterGiven,
                 nameGiven, now, inflight, lockVars>>

SpecSeq == InitSeq /\ [][ApplyGeneratePacketID]_vars

\* Unsubscribing: client a on the first connection and client b on the
\* others subscribe to "a" and to "#", which overlaps it, unsubscribe from
\* either, whether subscribed or not, and publish on "a" at QoS 0
UnsubscribeFirst(k) == IF k = 1 THEN ConnectA1 ELSE ConnectB1
UnsubscribeLater ==
  {MkSubscribe(1, TopicT, 1), MkSubscribe(1, FilterAll, 2), MkUnsubscribe(2, TopicT),
   MkUnsubscribe(1, FilterAll), PlainQoS0}

NextUnsubscribe ==
  \E k \in Conns :
    \/ AcceptConn(k)
    \/ AdmitConn(k)
    \/ StoreSession(k)
    \/ ConnectAccepted(k, UnsubscribeFirst(k))
    \/ \E raw \in UnsubscribeLater :
         \/ OnSubscribe(k, raw)
         \/ OnUnsubscribe(k, raw)
         \/ OnPublishQoS0(k, raw)

SpecUnsubscribe == Init /\ [][NextUnsubscribe]_vars

\* Acknowledgements with wrong flags: one client, subscribed at QoS 2, that
\* publishes to itself at QoS 1 and 2 and then sends acknowledgements whose
\* low nibble is wrong, and right ones
FlagsLater ==
  FlaggedAcks
    \cup {MkSubscribe(1, FilterAll, 2), PlainY, PlainQoS2,
          PubackPacketEncode(1), PubrecPacketEncode(1), PubcompPacketEncode(1)}

NextFlags ==
  \E k \in {1} :
    \/ AcceptConn(k)
    \/ AdmitConn(k)
    \/ StoreSession(k)
    \/ ConnectAccepted(k, ConnectA1)
    \/ \E raw \in FlagsLater :
         \/ ParseError(k, raw)
         \/ OnPublishQoS1(k, raw)
         \/ OnPublishQoS2(k, raw)
         \/ OnSubscribe(k, raw)
         \/ OnPuback(k, raw)
         \/ OnPubrec(k, raw)
         \/ OnPubcomp(k, raw)

SpecFlags == Init /\ [][NextFlags]_vars

\* --------------------------------------------------------------------------
\* The shared locks.  Every operation of a task is the sequence of Lock,
\* RLock, Unlock and RUnlock calls it makes, in the order of the code; a call
\* that cannot be granted leaves the task blocked in it.
\* --------------------------------------------------------------------------

Call(op, mu) == [op |-> op, mu |-> mu]

\* mu.Lock(); defer mu.Unlock() around the calls of inner
Locked(mu, inner) == <<Call("Lock", mu)>> \o inner \o <<Call("Unlock", mu)>>

\* mu.RLock(); defer mu.RUnlock() around the calls of inner
RLocked(mu, inner) == <<Call("RLock", mu)>> \o inner \o <<Call("RUnlock", mu)>>

\* Broker.deliverMessage for n deliveries above QoS 0: AddPendingQoS1 or
\* AddPendingQoS2 each time
RECURSIVE LocksOfDeliveries(_)
LocksOfDeliveries(n) ==
  IF n = 0 THEN <<>> ELSE Locked("qm.mu", <<>>) \o LocksOfDeliveries(n - 1)

\* Broker.HandlePublish: handleRetainedMessage, Match, the deliveries
LocksOfHandlePublish(retain, n) ==
  (IF retain THEN Locked("retainedMu", <<>>) ELSE <<>>)
    \o RLocked("st.mu", <<>>) \o LocksOfDeliveries(n)

\* Broker.sendRetainedMessages: the deliveries are made under the read lock
LocksOfSendRetainedMessages(n) == RLocked("retainedMu", LocksOfDeliveries(n))

\* Broker.HandleSubscribe for one filter: Subscribe, sendRetainedMessages
LocksOfHandleSubscribe(n) == Locked("st.mu", <<>>) \o LocksOfSendRetainedMessages(n)

\* Broker.HandleUnsubscribe for one filter
LocksOfHandleUnsubscribe == Locked("st.mu", <<>>)

\* HandlePubAck, HandlePubRec, HandlePubComp, HandleIncomingQoS2Publish
LocksOfAck == Locked("qm.mu", <<>>)

\* Broker.HandleIncomingPubRel: the QoS manager's, then HandlePublish
LocksOfHandleIncomingPubRel(retain, n) ==
  Locked("qm.mu", <<>>) \o LocksOfHandlePublish(retain, n)

\* CONNECT (tcp.go lines 222-257): Delete when a session is replaced, Store
LocksOfConnect(replaces) ==
  (IF replaces THEN Locked("rwmu", <<>>) ELSE <<>>) \o Locked("rwmu", <<>>)

\* Broker.HandleClientDisconnect: UnsubscribeAll, CleanupClient
LocksOfHandleClientDisconnect == Locked("st.mu", <<>>) \o Locked("qm.mu", <<>>)

\* a retry pass that stores into the retained store while it holds the QoS
\* tables: not what the broker does
LocksOfRetryUnderRetained ==
  Locked("qm.mu", Locked("retainedMu", <<>>)) \o Locked("qm.mu", <<>>)

\* QoSManager.retryLoop on a tick: processRetries, cleanupTimedOutMessages
LocksOfRetryTick == Locked("qm.mu", <<>>) \o Locked("qm.mu", <<>>)

\* the operations of a connection's handler
HandlerOperations ==
  {LocksOfConnect(replaces) : replaces \in BOOLEAN}
    \cup {LocksOfHandlePublish(retain, n) : retain \in BOOLEAN, n \in 0..1}
    \cup {LocksOfHandleSubscribe(n) : n \in 0..1}
    \cup {LocksOfHandleIncomingPubRel(retain, n) : retain \in BOOLEAN, n \in 0..1}
    \cup {LocksOfHandleUnsubscribe, LocksOfAck, LocksOfHandleClientDisconnect}

OperationsOf(t) == IF t = Ticker THEN {LocksOfRetryTick} ELSE HandlerOperations

Holds(t, mu) == \E h \in lockHolders[mu] : h.task = t

\* task t is blocked in a Lock call on mu
WaitsToWrite(t, mu) ==
  lockWaiting[t] /\ lockTodo[t] # <<>> /\ Head(lockTodo[t]) = Call("Lock", mu)

\* sync.RWMutex: Lock is granted when nobody holds the mutex; RLock when no
\* writer holds it and no Lock call is blocked on it
Grantable(t) ==
  LET c == Head(lockTodo[t]) IN
  IF c.op = "Lock" THEN lockHolders[c.mu] = {}
  ELSE /\ \A h \in lockHolders[c.mu] : h.mode = "R"
       /\ \A u \in Tasks \ {t} : ~WaitsToWrite(u, c.mu)

UnchangedByLocks ==
  UNCHANGED <<pc, clientID, brokerSession, isShuttingdown, currentConnections,
              brokerVars, crashed, uuidSeq, written, ev, published, inbound, dirty,
              matchVars, now, inflight>>

\* task t starts an operation
LockBegin(t, calls) ==
  /\ lockTodo[t] = <<>>
  /\ lockTodo' = [lockTodo EXCEPT ![t] = calls]
  /\ UNCHANGED <<lockHolders, lockWaiting>>
  /\ UnchangedByLocks

\* task t calls Lock or RLock
LockCall(t) ==
  /\ lockTodo[t] # <<>> /\ ~lockWaiting[t]
  /\ Head(lockTodo[t]).op \in {"Lock", "RLock"}
  /\ lockWaiting' = [lockWaiting EXCEPT ![t] = TRUE]
  /\ UNCHANGED <<lockTodo, lockHolders>>
  /\ UnchangedByLocks

\* the call of task t returns with the mutex
LockGranted(t) ==
  /\ lockWaiting[t]
  /\ Grantable(t)
  /\ LET c == Head(lockTodo[t]) IN
       lockHolders' = [lockHolders EXCEPT ![c.mu] =
                         @ \cup {[task |-> t, mode |-> IF c.op = "Lock" THEN "W" ELSE "R"]}]
  /\ lockTodo' = [lockTodo EXCEPT ![t] = Tail(@)]
  /\ lockWaiting' = [lockWaiting EXCEPT ![t] = FALSE]
  /\ UnchangedByLocks

\* task t calls Unlock or RUnlock
LockRelease(t) ==
  /\ lockTodo[t] # <<>>
  /\ Head(lockTodo[t]).op \in {"Unlock", "RUnlock"}
  /\ lockHolders' = [lockHolders EXCEPT ![Head(lockTodo[t]).mu] =
                       {h \in @ : h.task # t}]
  /\ lockTodo' = [lockTodo EXCEPT ![t] = Tail(@)]
  /\ UNCHANGED lockWaiting
  /\ UnchangedByLocks

NextLocks ==
  \E t \in {Ticker, 1, 2} :
    \/ \E calls \in OperationsOf(t) : LockBegin(t, calls)
    \/ LockCall(t)
    \/ LockGranted(t)
    \/ LockRelease(t)

SpecLocks == Init /\ [][NextLocks]_vars

\* --------------------------------------------------------------------------
\* Properties
\* --------------------------------------------------------------------------

\* the control packet type (1..14) in the first byte of a packet
TypeOf(raw) == raw[1] \div 16

\* what the packet decodes to; no packet below takes its client id from uuid
Packet(raw) == Parsed[raw][0]

\* the last step read a packet on a connection that was in the given state
ReadIn(state) == ev.op \in {"packet", "panic"} /\ ev.was = state

\* the step being taken reads a packet on connection k, which is established
\* and whose client id the registry knows
ServedStep(k) ==
  /\ ev'.op = "packet" /\ ev'.conn = k /\ ev'.was = "established"
  /\ clientID[k] \in DOMAIN session

IsQoS2Publish(raw) ==
  /\ TypeOf(raw) = 3
  /\ Packet(raw).kind = "pkt"
  /\ Packet(raw).Publish.QoS = 2

IsPubrel(raw) == TypeOf(raw) = 6 /\ Packet(raw).kind = "pkt"

\* the bytes of the four-byte packets with a packet id
AckBytes(first, packetID) == <<first, 2, packetID \div 256, packetID % 256>>

\* C1: for every client and packet id, the inbound QoS 2 PUBLISH packets with
\* that id (the first one and its duplicates) are each answered with PUBREC
\* and hand nothing to the publish path; every PUBREL is answered with
\* PUBCOMP; the PUBREL hands the message of the first of those PUBLISH packets
\* to the publish path, once, and a PUBREL with no PUBLISH before it hands
\* nothing.
C1_InboundQoS2ExactlyOnce ==
  [][\A k \in Conns :
       ServedStep(k) =>
         /\ IsQoS2Publish(ev'.raw) =>
              /\ written' = <<[conn |-> k,
                               pkt |-> AckBytes(80, Packet(ev'.raw).Publish.PacketID)]>>
              /\ published' = <<>>
         /\ IsPubrel(ev'.raw) =>
              LET p == Packet(ev'.raw).PacketID IN
                /\ written' # <<>>
                /\ written'[Len(written')] = [conn |-> k, pkt |-> AckBytes(112, p)]
                /\ IF p \in DOMAIN inbound[k]
                     THEN /\ Len(published') = 1
                          /\ published'[1].Topic = inbound[k][p].Topic
                          /\ published'[1].Payload = inbound[k][p].Payload
                          /\ published'[1].Retain = inbound[k][p].Retain
                     ELSE published' = <<>>]_vars

\* the elements of a sequence
Range(seq) == {seq[i] : i \in 1..Len(seq)}

\* the write w is a PUBLISH of the stored message e
Carries(w, e) ==
  /\ TypeOf(w.pkt) = 3
  /\ PublishPacketParse(w.pkt).kind = "pkt"
  /\ PublishPacketParse(w.pkt).Publish.Topic = e.Topic
  /\ PublishPacketParse(w.pkt).Publish.Payload = e.Payload
  /\ PublishPacketParse(w.pkt).Publish.Retain = e.Retain

\* C2: an inbound QoS 2 PUBLISH writes no PUBLISH to anyone and leaves the
\* retained store alone: it registers the entry and writes PUBREC.  The
\* PUBREL of a stored entry writes the stored topic, payload and retain flag
\* to every matching subscriber whose socket is open, and writes PUBCOMP to
\* the publisher after them.
C2_DeliveryOnlyAtPubrel ==
  [][\A k \in Conns :
       ServedStep(k) =>
         /\ IsQoS2Publish(ev'.raw) =>
              /\ \A w \in Range(written') : TypeOf(w.pkt) # 3
              /\ retainedMsgs' = retainedMsgs
              /\ <<clientID[k], Packet(ev'.raw).Publish.PacketID>> \in DOMAIN qos2Received'
              /\ written' = <<[conn |-> k,
                               pkt |-> AckBytes(80, Packet(ev'.raw).Publish.PacketID)]>>
         /\ (/\ IsPubrel(ev'.raw)
             /\ <<clientID[k], Packet(ev'.raw).PacketID>> \in DOMAIN qos2Received) =>
              LET p == Packet(ev'.raw).PacketID
                  e == qos2Received[<<clientID[k], p>>]
              IN /\ written' # <<>>
                 /\ written'[Len(written')] = [conn |-> k, pkt |-> AckBytes(112, p)]
                 /\ \A s \in Range(Match(trie, e.Topic)) :
                      Open(s.Conn) =>
                        \E i \in 1..(Len(written') - 1) :
                          /\ written'[i].conn = s.Conn
                          /\ Carries(written'[i], e)]_vars

\* a CONNECT that decodes
IsConnect(raw) == TypeOf(raw) = 1 /\ Packet(raw).kind = "pkt"

\* the step being taken reads a CONNECT on connection k, which was waiting
\* for it, and accepts it
AcceptedStep(k) ==
  /\ ev'.op = "packet" /\ ev'.conn = k /\ ev'.was = "await"
  /\ IsConnect(ev'.raw)
  /\ pc'[k] = "storing"

\* the step being taken stores the session of connection k
StoreStep(k) == ev'.op = "store" /\ ev'.conn = k

\* the credential store holds the user and the password verifies against the
\* stored hash
CredentialsVerify(cp) ==
  /\ cp.Username \in DOMAIN Users
  /\ VerifyPasswd(Users[cp.Username], cp.Password)

\* the registry has no session whose connection handle is k
NoSessionOf(k) == \A c \in DOMAIN session : session[c].Conn # k

\* C3: a CONNECT with the username and the password flag, read by a
\* connection waiting for its CONNECT, is accepted (CONNACK with return code
\* 0, then the session stored and the connection established) if and only if
\* the credential store holds the user and the password verifies against the
\* stored hash; otherwise the server writes CONNACK(0, 0x04), closes the
\* connection and stores no session.
C3_AcceptedIffCredentialsVerify ==
  /\ (/\ ReadIn("await")
      /\ IsConnect(ev.raw)
      /\ Packet(ev.raw).Connect.UsernameFlag
      /\ Packet(ev.raw).Connect.PasswordFlag) =>
       IF CredentialsVerify(Packet(ev.raw).Connect)
         THEN /\ Len(written) = 1
              /\ written[1].conn = ev.conn
              /\ written[1].pkt[1] = 32 /\ written[1].pkt[4] = 0
              /\ pc[ev.conn] = "storing"
         ELSE /\ written = <<[conn |-> ev.conn, pkt |-> <<32, 2, 0, 4>>]>>
              /\ pc[ev.conn] = "closed"
              /\ NoSessionOf(ev.conn)
  /\ ev.op = "store" =>
       /\ pc[ev.conn] = "established"
       /\ ~NoSessionOf(ev.conn)

\* C4: the CONNACK of an accepted CONNECT for client id c has session_present
\* 1 if and only if clean_session is false and the registry holds an entry
\* for c when the CONNECT is handled; with clean_session true an existing
\* entry is dropped and session_present is 0.  The session the handler then
\* stores has the CONNECT's clean_session, keep_alive and will fields and the
\* connection's handle, and after the store the registry maps c to it.
C4_SessionPresent ==
  [][\A k \in Conns :
       /\ AcceptedStep(k) =>
            LET cp == Packet(ev'.raw).Connect
                held == cp.ClientID \in DOMAIN session
            IN /\ written' =
                    <<[conn |-> k,
                       pkt |-> <<32, 2, IF ~cp.CleanSession /\ held THEN 1 ELSE 0, 0>>]>>
               /\ (cp.CleanSession /\ held) => cp.ClientID \notin DOMAIN session'
               /\ brokerSession'[k] =
                    [ClientID |-> cp.ClientID, CleanSession |-> cp.CleanSession,
                     WillTopic |-> cp.WillTopic, WillMessage |-> cp.WillMessage,
                     WillQoS |-> cp.WillQoS, WillRetain |-> cp.WillRetain,
                     KeepAlive |-> cp.KeepAlive, Conn |-> k]
       /\ StoreStep(k) =>
            /\ brokerSession[k].ClientID \in DOMAIN session'
            /\ session'[brokerSession[k].ClientID] = brokerSession[k]]_vars

\* a session was reported present to a connection whose session is now stored
\* over the one that was there: the clean_session=false CONNECT of a client
\* the registry knew
C4_Witness ==
  \E k \in Conns :
    /\ ev.op = "packet" /\ ev.conn = k /\ ev.was = "await"
    /\ written = <<[conn |-> k, pkt |-> <<32, 2, 1, 0>>]>>
    /\ pc[k] = "storing"
    /\ ~brokerSession[k].CleanSession
    /\ brokerSession[k].ClientID \in DOMAIN session

\* C5: when a connection closes whose session was created with
\* clean_session=true, the registry has no entry for its client id after the
\* close; and a CONNACK reports a session present only if the CONNECT has
\* clean_session=false and the entry it found was created with
\* clean_session=false.
C5_CleanSessionDestroyedOnClose ==
  [][\A k \in Conns :
       /\ (/\ pc[k] # "closed" /\ pc'[k] = "closed"
           /\ clientID[k] \in DOMAIN session
           /\ session[clientID[k]].Conn = k
           /\ session[clientID[k]].CleanSession) =>
            clientID[k] \notin DOMAIN session'
       /\ (AcceptedStep(k) /\ written'[1].pkt[3] = 1) =>
            /\ ~Packet(ev'.raw).Connect.CleanSession
            /\ Packet(ev'.raw).Connect.ClientID \in DOMAIN session
            /\ ~session[Packet(ev'.raw).Connect.ClientID].CleanSession]_vars

\* C6: when the session of an accepted CONNECT for client id c is stored,
\* the registry's handle for c is the new connection and every earlier
\* connection of c is closed; at no point are two established connections
\* served under the same client id.
C6_TakeoverClosesEarlier ==
  [][/\ \A k \in Conns :
          StoreStep(k) =>
            /\ session'[clientID'[k]].Conn = k
            /\ \A j \in Conns \ {k} : clientID'[j] = clientID'[k] => pc'[j] = "closed"
     /\ \A j, k \in Conns :
          (j # k /\ pc'[j] = "established" /\ pc'[k] = "established") =>
            clientID'[j] # clientID'[k]]_vars

\* C7: when the first packet of a connection is of one of the thirteen types
\* other than CONNECT, well-formed or not, the server writes exactly the
\* bytes 20 02 00 01 and closes the connection, which therefore never becomes
\* established.
C7_FirstPacketNotConnect ==
  (ReadIn("await") /\ TypeOf(ev.raw) \in 2..14) =>
    /\ ~crashed
    /\ written = <<[conn |-> ev.conn, pkt |-> <<32, 2, 0, 1>>]>>
    /\ pc[ev.conn] = "closed"

\* the return code the CONNACK must carry for each CONNECT that fails
\* decoding: 1 for the protocol name and level, 2 for the client id, 4 for
\* the username and password fields, 3 for everything else
ExpectedReturnCode ==
  (ConnectBadName :> 1) @@ (ConnectBadLevel :> 1) @@
  (ConnectBadChar :> 2) @@ (ConnectLongID :> 2) @@ (ConnectEmptyIDNotClean :> 2) @@
  (ConnectPasswordOnly :> 4) @@ (ConnectNoUsernameField :> 4) @@
  (ConnectNoPasswordField :> 4) @@
  (ConnectWillQoS3 :> 3) @@ (ConnectNoWillFields :> 3) @@ (ConnectShortID :> 3) @@
  (ConnectNoKeepAlive :> 3) @@ (ConnectNoClientID :> 3)

\* C8: a CONNECT that fails decoding on a connection waiting for its CONNECT
\* is answered with CONNACK(0, code), code as the cause of the failure
\* demands, and the connection is closed.
C8_ConnectDecodeFailureCode ==
  (ReadIn("await") /\ ev.raw \in DOMAIN ExpectedReturnCode) =>
    /\ ~crashed
    /\ written = <<[conn |-> ev.conn, pkt |-> <<32, 2, 0, ExpectedReturnCode[ev.raw]>>]>>
    /\ pc[ev.conn] = "closed"

\* C9: a CONNACK is written to a connection only while it has not yet
\* answered a CONNECT, and the step that writes it ends that state, so that
\* at most one is ever written and none once the connection is established;
\* a step that closes an established connection writes nothing to it.
C9_NoConnackOnceEstablished ==
  [][\A k \in Conns :
       /\ \A w \in Range(written') :
            (w.conn = k /\ TypeOf(w.pkt) = 2) =>
              /\ pc[k] \in {"spawned", "await"}
              /\ pc'[k] \notin {"spawned", "await"}
       /\ (pc[k] = "established" /\ pc'[k] = "closed" /\ ev'.conn = k) =>
            \A w \in Range(written') : w.conn # k]_vars

\* C10: after a step that writes a CONNACK with a non-zero return code to a
\* connection, the connection is closed, and its handler has changed none of
\* the registry, the trie, the retained store and the three QoS tables since
\* the connection was accepted.
C10_RejectionLeavesNoTrace ==
  \A w \in Range(written) :
    (TypeOf(w.pkt) = 2 /\ w.pkt[4] # 0) =>
      /\ pc[w.conn] = "closed"
      /\ ~dirty[w.conn]

\* a byte that is a control character (U+0000 to U+001F, U+007F to U+009F)
IsControl(b) == b < 32 \/ (b >= 127 /\ b <= 159)

\* the filter breaks the rules for topic filters: it is empty or has an empty
\* level or a control character, a "+" that is not a whole level, or a "#"
\* that is not the whole last level
ViolatesFilterRules(f) ==
  \/ f = <<>>
  \/ f[1] = Ch.Slash \/ f[Len(f)] = Ch.Slash
  \/ \E i \in 1..Len(f) :
       \/ IsControl(f[i])
       \/ i < Len(f) /\ f[i] = Ch.Slash /\ f[i + 1] = Ch.Slash
       \/ /\ f[i] = Ch.Plus
          /\ \/ i > 1 /\ f[i - 1] # Ch.Slash
             \/ i < Len(f) /\ f[i + 1] # Ch.Slash
       \/ /\ f[i] = Ch.Hash
          /\ \/ i < Len(f)
             \/ i > 1 /\ f[i - 1] # Ch.Slash

\* the trie has a subscription of client c under the filter f
Subscribed(t, c, f) ==
  /\ WalkLevels(Split(f)) \in DOMAIN t
  /\ c \in DOMAIN t[WalkLevels(Split(f))]

\* the SUBACK the request s is to be answered with
ExpectedSuback(s) ==
  <<144, 2 + Len(s.Filters), s.PacketID \div 256, s.PacketID % 256>>
    \o [i \in 1..Len(s.Filters) |->
          IF ViolatesFilterRules(s.Filters[i].Topic) THEN 128 ELSE s.Filters[i].QoS]

\* the step being taken reads the SUBSCRIBE s on connection k
SubscribeStep(k, s) ==
  /\ ServedStep(k)
  /\ ev'.raw = MkSubscribeFilters(s.PacketID, s.Filters)

\* C11: a SUBSCRIBE on an established connection is answered with one SUBACK
\* that has the packet id of the SUBSCRIBE and one return code per filter, in
\* order: 0x80 for a filter that breaks the filter rules, the requested QoS
\* for any other.  The connection stays open, the filters that break the
\* rules are not put into the trie and the other filters of the packet are.
C11_SubackPerFilter ==
  [][\A k \in Conns : \A s \in SubscribeRequests :
       SubscribeStep(k, s) =>
         /\ pc'[k] = "established"
         /\ SelectSeq(written', LAMBDA w : TypeOf(w.pkt) \in {2, 9})
              = <<[conn |-> k, pkt |-> ExpectedSuback(s)]>>
         /\ \A i \in 1..Len(s.Filters) :
              IF ViolatesFilterRules(s.Filters[i].Topic)
                THEN Subscribed(trie', clientID[k], s.Filters[i].Topic)
                       => Subscribed(trie, clientID[k], s.Filters[i].Topic)
                ELSE /\ Subscribed(trie', clientID[k], s.Filters[i].Topic)
                     /\ trie'[WalkLevels(Split(s.Filters[i].Topic))][clientID[k]].QoS
                          = s.Filters[i].QoS]_vars

\* the writes of the step being taken that go to connection k
WrittenTo(k) == SelectSeq(written', LAMBDA w : w.conn = k)

\* C12: when a SUBSCRIBE is answered with a SUBACK, the SUBACK is the first
\* packet the step writes to the subscriber: the retained messages the
\* subscription brings follow it.
C12_SubackBeforeRetained ==
  [][\A k \in Conns : \A s \in SubscribeRequests :
       (/\ SubscribeStep(k, s)
        /\ \E i \in 1..Len(written') : TypeOf(written'[i].pkt) = 9) =>
         /\ TypeOf(WrittenTo(k)[1].pkt) = 9
         /\ \A i \in 2..Len(WrittenTo(k)) :
              /\ TypeOf(WrittenTo(k)[i].pkt) = 3
              /\ PublishPacketParse(WrittenTo(k)[i].pkt).Publish.Retain]_vars

\* the filter levels fl match the topic levels nl: a level matches itself,
\* "+" matches any one level, "#" matches whatever is left, nothing included
RECURSIVE LevelsMatch(_, _)
LevelsMatch(fl, nl) ==
  IF fl = <<>> THEN nl = <<>>
  ELSE IF Head(fl) = <<Ch.Hash>> THEN TRUE
  ELSE IF nl = <<>> THEN FALSE
  ELSE /\ Head(fl) = <<Ch.Plus>> \/ Head(fl) = Head(nl)
       /\ LevelsMatch(Tail(fl), Tail(nl))

\* the topic filter f matches the topic name t
FilterMatches(f, t) == LevelsMatch(Split(f), Split(t))

\* the smaller of two QoS levels
Lower(q, g) == IF q < g THEN q ELSE g

\* the PUBLISH packets among the writes of the step being taken
PublishWrites == SelectSeq(written', LAMBDA w : TypeOf(w.pkt) = 3)

\* the PUBLISH a write carries
Sent(w) == PublishPacketParse(w.pkt).Publish

\* the pending table of QoS q
PendingOf(q, qos1, qos2) == IF q = 1 THEN qos1 ELSE qos2

\* the write w of the step being taken has its own new entry, keyed by the
\* client id c and the packet id of the write, in the pending table of its QoS
RegisteredPending(w, c) ==
  LET key == <<c, Sent(w).PacketID>>
      before == PendingOf(Sent(w).QoS, pendingQoS1, pendingQoS2)
      after == PendingOf(Sent(w).QoS, pendingQoS1', pendingQoS2')
  IN /\ key \notin DOMAIN before
     /\ key \in DOMAIN after
     /\ after[key].Topic = Sent(w).Topic
     /\ after[key].Payload = Sent(w).Payload
     /\ after[key].QoS = Sent(w).QoS

\* C13: a SUBSCRIBE read on the connection the registry has for the client
\* sends the subscriber, for every retained topic, as many PUBLISH packets as
\* the packet has valid filters that match the topic: one for a matching
\* filter, none for a filter that does not match.  Each of them has the
\* retain flag, the stored payload and as QoS the smaller of the stored QoS
\* and the QoS granted to a matching filter; at QoS 1 and 2 it has an entry
\* in the pending table of its QoS.
C13_RetainedOnSubscribe ==
  [][\A k \in Conns : \A s \in SubscribeRequests :
       (/\ SubscribeStep(k, s)
        /\ session[clientID[k]].Conn = k
        /\ \E i \in 1..Len(written') : TypeOf(written'[i].pkt) = 9) =>
         LET valid == {i \in 1..Len(s.Filters) : ~ViolatesFilterRules(s.Filters[i].Topic)}
             for(t) == {i \in valid : FilterMatches(s.Filters[i].Topic, t)}
             of(t) == {j \in 1..Len(PublishWrites) : Sent(PublishWrites[j]).Topic = t}
         IN /\ \A j \in 1..Len(PublishWrites) :
                 /\ PublishWrites[j].conn = k
                 /\ Sent(PublishWrites[j]).Topic \in DOMAIN retainedMsgs
            /\ \A t \in DOMAIN retainedMsgs :
                 /\ Cardinality(of(t)) = Cardinality(for(t))
                 /\ \A j \in of(t) :
                      LET w == PublishWrites[j] IN
                        /\ Sent(w).Retain
                        /\ Sent(w).Payload = retainedMsgs[t].Payload
                        /\ \E i \in for(t) :
                             Sent(w).QoS = Lower(retainedMsgs[t].QoS, s.Filters[i].QoS)
                        /\ Sent(w).QoS > 0 => RegisteredPending(w, clientID[k])]_vars

\* the PUBLISH packets of the retained-message scenario, by their fields
PublishRequests ==
  {[raw |-> RetainX, QoS |-> 1, Retain |-> TRUE, Topic |-> TopicT, Payload |-> PayloadX],
   [raw |-> RetainY, QoS |-> 0, Retain |-> TRUE, Topic |-> TopicB, Payload |-> PayloadY],
   [raw |-> RetainEmpty, QoS |-> 0, Retain |-> TRUE, Topic |-> TopicT, Payload |-> <<>>],
   [raw |-> PlainY, QoS |-> 1, Retain |-> FALSE, Topic |-> TopicT, Payload |-> PayloadY]}

\* the step being taken reads the PUBLISH m on connection k
PublishStep(k, m) == ServedStep(k) /\ ev'.raw = m.raw

\* the retained store has the same entry, or none, for topic t before and
\* after the step
SameRetained(t) ==
  /\ t \in DOMAIN retainedMsgs' <=> t \in DOMAIN retainedMsgs
  /\ t \in DOMAIN retainedMsgs => retainedMsgs'[t] = retainedMsgs[t]

BothApplied == DOMAIN matched = {"TopicMatches", "Match"}

\* TopicMatches says the filter matches the name, and Match finds the
\* subscription to the filter under the name
BothMatch == matched["TopicMatches"] /\ matched["Match"] # <<>>

\* neither does
NeitherMatches == ~matched["TopicMatches"] /\ matched["Match"] = <<>>

HasHash(f) == \E i \in 1..Len(f) : f[i] = Ch.Hash

\* the filter and the name have equally many levels and every level of the
\* filter is "+" or the level of the name at its place
LevelByLevel(f, t) ==
  /\ Len(Split(f)) = Len(Split(t))
  /\ \A i \in 1..Len(Split(f)) :
       Split(f)[i] = <<Ch.Plus>> \/ Split(f)[i] = Split(t)[i]

\* C15: a filter without "#" matches exactly the names that have as many
\* levels as it has and agree with it level by level, "+" standing for any
\* one level; "sport/+/player1" matches "sport/tennis/player1" and neither
\* "sport/tennis/player2" nor "sport/tennis/player1/ranking"; "sport/#"
\* matches all three.  TopicMatches and the trie's Match both say so.
C15_LevelByLevel ==
  BothApplied =>
    /\ ~HasHash(filterGiven) =>
         IF LevelByLevel(filterGiven, nameGiven) THEN BothMatch ELSE NeitherMatches
    /\ (/\ filterGiven = Join(<<Sport, LevelHash>>)
        /\ nameGiven \in {Join(<<Sport, Tennis, Player1>>),
                          Join(<<Sport, Tennis, Player2>>),
                          Join(<<Sport, Tennis, Player1, Ranking>>)}) => BothMatch

\* "sport/+/player1" has been matched against "sport/tennis/player1"
C15_Witness ==
  /\ BothApplied
  /\ filterGiven = Join(<<Sport, LevelPlus, Player1>>)
  /\ nameGiven = Join(<<Sport, Tennis, Player1>>)
  /\ BothMatch

\* C16: a filter that ends in "/#" matches the name made of the levels
\* before the "/#": "sport/#" matches "sport".  TopicMatches and the trie's
\* Match both say so.
C16_HashMatchesParent ==
  (/\ BothApplied
   /\ filterGiven = nameGiven \o <<Ch.Slash, Ch.Hash>>) => BothMatch

\* the PUBLISH packets of the delivery scenario that are handed to the
\* publish path when they are read, by their fields
DeliveryRequests ==
  {[raw |-> PlainQoS0, QoS |-> 0, Topic |-> TopicT, Payload |-> PayloadX],
   [raw |-> PlainY, QoS |-> 1, Topic |-> TopicT, Payload |-> PayloadY]}

\* the messages the step being taken on connection k publishes: the QoS 0 or
\* QoS 1 PUBLISH it reads, or the QoS 2 message the PUBREL it reads releases
PublishedNow(k) ==
  {[QoS |-> m.QoS, Topic |-> m.Topic, Payload |-> m.Payload] :
     m \in {r \in DeliveryRequests : ev'.raw = r.raw}}
  \cup
  (IF /\ IsPubrel(ev'.raw)
      /\ <<clientID[k], Packet(ev'.raw).PacketID>> \in DOMAIN qos2Received
     THEN {[QoS |-> 2,
            Topic |-> qos2Received[<<clientID[k], Packet(ev'.raw).PacketID>>].Topic,
            Payload |-> qos2Received[<<clientID[k], Packet(ev'.raw).PacketID>>].Payload]}
     ELSE {})

\* the subscriptions of the trie whose filter matches the topic
MatchingSubscriptions(t, topic) ==
  UNION {{t[p][c] : c \in DOMAIN t[p]} :
           p \in {q \in DOMAIN t : LevelsMatch(q, Split(topic))}}

\* the keys the step being taken adds to the pending table of QoS q
NewPending(q) ==
  DOMAIN PendingOf(q, pendingQoS1', pendingQoS2')
    \ DOMAIN PendingOf(q, pendingQoS1, pendingQoS2)

AckedIDs == {1}

\* the step being taken reads, on connection k, the four-byte packet with
\* the given first byte and packet id
AckStep(k, first, p) == ServedStep(k) /\ ev'.raw = AckBytes(first, p)

\* C18: a PUBREC for an entry of pendingQoS2 takes the entry, and nothing
\* else, out of pendingQoS2, leaves the flow waiting for its PUBCOMP and
\* writes one PUBREL with the same packet id to the connection, and nothing
\* else.  A PUBREC for anything else writes nothing and leaves the three
\* tables as they are.  A PUBCOMP ends the wait.  A PUBACK changes neither
\* pendingQoS2 nor the flows that wait for a PUBCOMP.
C18_OutboundQoS2 ==
  [][\A k \in Conns : \A p \in AckedIDs :
       LET key == <<clientID[k], p>> IN
         /\ AckStep(k, 80, p) =>
              IF key \in DOMAIN pendingQoS2
                THEN /\ DOMAIN pendingQoS2' = DOMAIN pendingQoS2 \ {key}
                     /\ \A other \in DOMAIN pendingQoS2' :
                          pendingQoS2'[other] = pendingQoS2[other]
                     /\ key \in DOMAIN qos2Received'
                     /\ qos2Received'[key].Topic = pendingQoS2[key].Topic
                     /\ qos2Received'[key].Payload = pendingQoS2[key].Payload
                     /\ pendingQoS1' = pendingQoS1
                     /\ written' = <<[conn |-> k, pkt |-> AckBytes(98, p)]>>
                ELSE /\ written' = <<>>
                     /\ pendingQoS1' = pendingQoS1
                     /\ pendingQoS2' = pendingQoS2
                     /\ qos2Received' = qos2Received
         /\ AckStep(k, 112, p) =>
              /\ key \notin DOMAIN qos2Received'
              /\ pendingQoS2' = pendingQoS2
         /\ AckStep(k, 64, p) =>
              /\ pendingQoS2' = pendingQoS2
              /\ qos2Received' = qos2Received]_vars

\* a subscriber has just answered a QoS 2 PUBLISH with PUBREC: it was
\* written the PUBREL and its flow waits for the PUBCOMP
C18_Witness ==
  /\ ev.op = "packet" /\ ev.was = "established" /\ ev.raw = AckBytes(80, 1)
  /\ written = <<[conn |-> ev.conn, pkt |-> AckBytes(98, 1)]>>
  /\ <<clientID[ev.conn], 1>> \in DOMAIN qos2Received
  /\ <<clientID[ev.conn], 1>> \notin DOMAIN pendingQoS2

\* the step being taken is a tick of the retry ticker
TickStep == ev'.op = "tick"

\* the retry PUBLISH packets the step being taken writes for the entry msg
RetriesOf(msg) ==
  {j \in 1..Len(written') :
     /\ written'[j].conn = msg.Conn
     /\ TypeOf(written'[j].pkt) = 3
     /\ Sent(written'[j]).PacketID = msg.PacketID
     /\ Sent(written'[j]).QoS = msg.QoS}

\* what a tick does with the entries of one pending table
RetriedOrDropped(before, after) ==
  /\ DOMAIN after \subseteq DOMAIN before
  /\ \A key \in DOMAIN before :
       LET msg == before[key] IN
         IF now' - msg.Timestamp >= 30
           THEN IF msg.RetryCount < 3
                  THEN /\ key \in DOMAIN after
                       /\ after[key] = [msg EXCEPT !.RetryCount = msg.RetryCount + 1,
                                                   !.Timestamp = now']
                       /\ Cardinality(RetriesOf(msg)) = 1
                       /\ \A j \in RetriesOf(msg) :
                            /\ Sent(written'[j]).DUP
                            /\ Sent(written'[j]).Topic = msg.Topic
                            /\ Sent(written'[j]).Payload = msg.Payload
                  ELSE /\ key \notin DOMAIN after
                       /\ RetriesOf(msg) = {}
           ELSE /\ key \in DOMAIN after
                /\ after[key] = msg
                /\ RetriesOf(msg) = {}

\* the keys the pending entries of this client can have
PendingKeys == {<<IdA, p>> : p \in 1..MaxPacketIDSeq}

\* the entry under key in table has the time left for its retries and removal
HasTimeLeft(table, key) ==
  /\ key \in DOMAIN table
  /\ table[key].Timestamp + 30 * (4 - table[key].RetryCount) <= MaxNow

\* C19: for a pending QoS 1 or QoS 2 entry that is never acknowledged, a
\* tick of the retry ticker at which now - Timestamp >= 30 seconds writes
\* the PUBLISH again, once, with DUP set and the same packet id, adds one to
\* RetryCount and sets Timestamp to now if RetryCount < 3, and removes the
\* entry otherwise; a tick leaves an entry that is not yet due as it is and
\* writes nothing for it.  RetryCount never exceeds 3, and an entry is
\* eventually removed.
C19_RetrySchedule ==
  /\ [][TickStep => /\ RetriedOrDropped(pendingQoS1, pendingQoS1')
                    /\ RetriedOrDropped(pendingQoS2, pendingQoS2')]_vars
  /\ [](\A key \in PendingKeys :
         /\ key \in DOMAIN pendingQoS1 => pendingQoS1[key].RetryCount <= 3
         /\ key \in DOMAIN pendingQoS2 => pendingQoS2[key].RetryCount <= 3)
  /\ \A key \in PendingKeys :
       /\ HasTimeLeft(pendingQoS1, key) ~> key \notin DOMAIN pendingQoS1
       /\ HasTimeLeft(pendingQoS2, key) ~> key \notin DOMAIN pendingQoS2

\* a tick has just written the third retry of a QoS 1 entry while a QoS 2
\* entry, sent later, is at its second
C19_Witness ==
  /\ ev.op = "tick"
  /\ \E key \in DOMAIN pendingQoS1 :
       /\ pendingQoS1[key].RetryCount = 3
       /\ pendingQoS1[key].Timestamp = now
  /\ \E key \in DOMAIN pendingQoS2 : pendingQoS2[key].RetryCount = 2
  /\ \E j \in 1..Len(written) :
       TypeOf(written[j].pkt) = 3 /\ PublishPacketParse(written[j].pkt).Publish.DUP

\* connection k has ended, HandleClientDisconnect has returned, and no
\* other connection has had its client id
Departed(k) ==
  /\ pc[k] = "closed"
  /\ clientID[k] # NoClient
  /\ \A j \in Conns \ {k} : clientID[j] # clientID[k]

\* the keys of the three QoS tables
QoSKeys == DOMAIN pendingQoS1 \cup DOMAIN pendingQoS2 \cup DOMAIN qos2Received

\* C20: once the connection of a client has ended and HandleClientDisconnect
\* has returned, none of the three QoS tables has an entry for the client
\* (so that the retry ticker has nothing of the client's to retry), whatever
\* the handlers of other connections that publish to its subscriptions do
\* meanwhile.
C20_NoEntryAfterDisconnect ==
  \A k \in Conns : Departed(k) => \A key \in QoSKeys : key[1] # clientID[k]

\* the step being taken ends connection k, which was established
Departs(k) ==
  /\ ev'.conn = k /\ ev'.was = "established"
  /\ ev'.op \in {"packet", "eof"}
  /\ pc'[k] = "closed"

\* the subscriber entries of the trie t: <<node, client id, entry>>
Entries(t) == UNION {{<<q, c, t[q][c]>> : c \in DOMAIN t[q]} : q \in DOMAIN t}

\* C21: when an established connection of client c ends, by DISCONNECT or
\* otherwise, the trie afterwards has no subscriber entry for c at any node
\* and the entries of every other client are as they were; the connection is
\* closed; nothing is published and no PUBLISH is written (no Will message);
\* and no step writes to a connection that is closed.
C21_Departure ==
  [][\A k \in Conns :
       /\ Departs(k) =>
            /\ \A e \in Entries(trie') : e[2] # clientID[k]
            /\ Entries(trie') = {e \in Entries(trie) : e[2] # clientID[k]}
            /\ ~Open(k)'
            /\ published' = <<>>
            /\ \A i \in 1..Len(written') : TypeOf(written'[i].pkt) # 3
            /\ \A topic \in {TopicT, TopicB} : \A i \in 1..Len(Match(trie', topic)) :
                 Match(trie', topic)[i].ClientID # clientID[k]
       /\ pc[k] = "closed" => \A i \in 1..Len(written') : written'[i].conn # k]_vars

\* client a, which connected with a Will and subscribed, has just sent
\* DISCONNECT while client b stays subscribed
C21_Witness ==
  /\ ev.op = "packet" /\ ev.raw = <<DISCONNECT, 0>> /\ ev.was = "established"
  /\ clientID[ev.conn] = IdA
  /\ IdA \in DOMAIN session /\ session[IdA].WillTopic = TopicT
  /\ dirty[ev.conn]
  /\ \E e \in Entries(trie) : e[2] = IdB

\* the connections among Conns that are being served: admitted, not ended
Serving == {k \in Conns : pc[k] \in {"await", "storing", "established", "publishing"}}

\* C22: with maxConnections connections being served when the first of
\* Conns arrives, the number of connections being served at the same time
\* is never more than maxConnections.
C22_CapRespected == ServedElsewhere + Cardinality(Serving) <= maxConnections

\* C23: once Stop has been called no connection is accepted any more, and
\* every connection that is open then is eventually closed, whether or not
\* its client sends anything more.
C23_TasksDrain ==
  /\ [][isShuttingdown => \A k \in Conns : pc[k] = "idle" => pc'[k] = "idle"]_vars
  /\ isShuttingdown ~> (\A k \in Conns : ~Open(k))

\* C24: for every packet a handler has read, Parse returned a packet or an
\* error, and the process is never ended by a panic: a connection that sends
\* a packet Parse cannot decode is closed and the others are served on.
C24_DecodingNeverAborts ==
  /\ \A raw \in FramedInputs :
       (ev.op \in {"packet", "panic"} /\ ev.raw = raw)
         => Packet(raw).kind \in {"pkt", "err"}
  /\ ~crashed

\* the SUBSCRIBE packets of the overlap scenario, by their fields
OverlapRequests ==
  {[raw |-> MkSubscribe(1, TopicT, 0), Topic |-> TopicT, QoS |-> 0],
   [raw |-> MkSubscribe(1, TopicT, 1), Topic |-> TopicT, QoS |-> 1],
   [raw |-> MkSubscribe(1, FilterAll, 2), Topic |-> FilterAll, QoS |-> 2],
   [raw |-> MkSubscribeFilters(6, <<[Topic |-> FilterUnder, QoS |-> 2]>>),
    Topic |-> FilterUnder, QoS |-> 2]}

\* the entries of the trie t whose filter matches the topic and whose
\* subscriber is reached on connection j: <<node, client id>>
MatchingEntries(t, topic, j) ==
  {e \in Entries(t) : LevelsMatch(e[1], Split(topic)) /\ e[3].Conn = j}

\* C25: a SUBSCRIBE of client c to filter f leaves the trie with one
\* subscription of c under f, with the QoS of this SUBSCRIBE, and every other
\* subscription as it was.  A PUBLISH on a topic is then written to a
\* subscriber once for each of its filters that matches the topic: several
\* times for overlapping filters, once for a filter subscribed to again.
C25_OnePerFilter ==
  [][\A k \in Conns :
       /\ \A s \in OverlapRequests :
            (ServedStep(k) /\ ev'.raw = s.raw) =>
              LET node == Split(s.Topic)
                  own(e) == e[1] = node /\ e[2] = clientID[k]
              IN /\ {e \in Entries(trie') : own(e)}
                      = {<<node, clientID[k],
                           [ClientID |-> clientID[k], Conn |-> session[clientID[k]].Conn,
                            QoS |-> s.QoS]>>}
                 /\ {e \in Entries(trie') : ~own(e)} = {e \in Entries(trie) : ~own(e)}
       /\ (ServedStep(k) /\ ev'.raw = PlainQoS0) =>
            \A j \in Conns :
              Cardinality({i \in 1..Len(PublishWrites) : PublishWrites[i].conn = j})
                = IF Open(j) THEN Cardinality(MatchingEntries(trie, TopicT, j)) ELSE 0]_vars

\* Match returns the one subscription of the tree, a's to filterGiven
ReturnsSubscription ==
  matched["Match"] = <<[ClientID |-> IdA, Conn |-> 1, QoS |-> QoSAtMostOnce]>>

\* C26: for every valid filter and valid name, with the subscription to the
\* filter the only one in the trie, Match of the name returns that
\* subscription if and only if TopicMatches of the filter and the name is
\* true, and returns nothing otherwise.
C26_SameDecision ==
  (/\ BothApplied
   /\ ValidateTopicFilter(filterGiven) = "nil"
   /\ ValidateTopicName(nameGiven) = "nil") =>
    IF matched["TopicMatches"] THEN ReturnsSubscription ELSE matched["Match"] = <<>>

\* "+/b/#" has been matched against "a/b/a" by both, and both match
C26_Witness ==
  /\ BothApplied
  /\ filterGiven = Join(<<LevelPlus, IdB, LevelHash>>)
  /\ nameGiven = Join(<<IdA, IdB, IdA>>)
  /\ matched["TopicMatches"]
  /\ ReturnsSubscription

\* the nodes of the trie t other than the root that have neither subscribers
\* nor children
EmptyNodes(t) == {q \in DOMAIN t : q # <<>> /\ DOMAIN t[q] = {} /\ Children(t, q) = {}}

\* C27: when the connection of client c ends and UnsubscribeAll(c) has run,
\* no node of the trie holds a subscriber entry for c, no node other than the
\* root is left with neither children nor subscribers, and the entries of
\* every other client are as they were.
C27_UnsubscribeAllCollapses ==
  [][\A k \in Conns :
       Departs(k) =>
         /\ \A q \in DOMAIN trie' : clientID[k] \notin DOMAIN trie'[q]
         /\ EmptyNodes(trie') = {}
         /\ \A e \in Entries(trie) : e[2] # clientID[k] => e \in Entries(trie')]_vars

\* the nodes of the trie t that lie below a "#" node
BelowHash(t) == {q \in DOMAIN t : \E i \in 1..(Len(q) - 1) : q[i] = LevelHash}

\* C28: after any sequence of Subscribe and Unsubscribe on the empty trie no
\* node other than the root has neither children nor subscribers, and no node
\* lies below a "#" node; and Unsubscribe(c, f), when the path of f is not in
\* the trie or c has no entry at its node, leaves the whole trie unchanged.
C28_TrieKeptTidy ==
  /\ [](EmptyNodes(trie) = {} /\ BelowHash(trie) = {})
  /\ [][\A k \in {1, 2} : \A f \in TrieUnsubscribeFilters :
          (/\ ev'.op = "Unsubscribe" /\ ev'.conn = k /\ ev'.raw = f
           /\ \/ Split(f) \notin DOMAIN trie
              \/ ClientOf(k) \notin DOMAIN trie[Split(f)])
            => trie' = trie]_vars

\* client b has just unsubscribed from "a/b", where only client a has an
\* entry, while "a/#" and "+/b" are subscribed to as well
C28_Witness ==
  /\ ev.op = "Unsubscribe" /\ ev.conn = 2 /\ ev.raw = FilterBelow
  /\ Split(FilterBelow) \in DOMAIN trie
  /\ DOMAIN trie[Split(FilterBelow)] = {IdA}
  /\ Split(FilterUnder) \in DOMAIN trie
  /\ Split(FilterPlusBelow) \in DOMAIN trie

\* the outbound flows the broker tracks, by table: unacknowledged QoS 1,
\* unreceived QoS 2, and QoS 2 awaiting PUBCOMP
FlowTables == <<pendingQoS1, pendingQoS2, qos2Received>>

\* C29: for every client c and packet id p at most one outbound flow is
\* tracked for (c, p) across the three tables, and a new delivery never takes
\* the packet id of an unfinished flow to the same client: it never writes
\* over the entry of such a flow, also after the packet ids have come round.
C29_OneFlowPerPacketID ==
  /\ [](\A i, j \in 1..3 : i < j => DOMAIN FlowTables[i] \cap DOMAIN FlowTables[j] = {})
  /\ [][/\ \A key \in DOMAIN pendingQoS1 \cap DOMAIN pendingQoS1' :
              pendingQoS1'[key] = pendingQoS1[key]
         /\ \A key2 \in DOMAIN pendingQoS2 \cap DOMAIN pendingQoS2' :
              pendingQoS2'[key2] = pendingQoS2[key2]]_vars

\* C30: generatePacketID never returns 0: whatever the counter, also when it
\* reaches a multiple of 65536 and when it passes 2^32, the packet id it
\* returns for an outbound QoS 1 or QoS 2 PUBLISH is in 1..65535.
C30_NeverZero ==
  "packetID" \in DOMAIN matched => matched["packetID"] \in 1..(TwoTo16 - 1)

\* C31: every packet written to a connection is written by the task that
\* owns the connection, the handler that reads from it: no step of another
\* connection's handler, and no step of the retry ticker, writes to it, so
\* that no two tasks ever write to one socket.
C31_OwnerWrites ==
  [][\A i \in 1..Len(written') : written'[i].conn = ev'.conn]_vars

\* the mutexes task t holds
HeldBy(t) == {mu \in Mutexes : Holds(t, mu)}

\* C32: a connection's handler never holds two of the shared locks at the
\* same time: on every path it releases each lock before it acquires
\* another.
C32_OneLockAtATime == \A k \in Conns : Cardinality(HeldBy(k)) <= 1

\* task t is blocked in a call that task u keeps from being granted: u holds
\* the mutex in a way the call cannot share, or the call is an RLock and u is
\* blocked in a Lock call on the same mutex
BlockedBy(t, u) ==
  /\ t # u
  /\ lockWaiting[t]
  /\ LET c == Head(lockTodo[t]) IN
       \/ \E h \in lockHolders[c.mu] : h.task = u /\ (c.op = "Lock" \/ h.mode = "W")
       \/ c.op = "RLock" /\ WaitsToWrite(u, c.mu)

\* every task of the set is blocked by a task of the set
Deadlocked(S) == S # {} /\ \A t \in S : \E u \in S : BlockedBy(t, u)

\* C39: the broker cannot deadlock on its shared locks: under every
\* interleaving of the handlers' operations and the retry ticker there is no
\* state in which the tasks of some set are each waiting for a lock that
\* another task of the set holds or is ahead for.
C39_NoDeadlock == \A S \in SUBSET Tasks : ~Deadlocked(S)

\* a handler that holds the retained store's lock is blocked in its Lock call
\* on the QoS tables, which the retry ticker holds, while the other handler
\* is blocked on the retained store
C39_Witness ==
  /\ Holds(1, "retainedMu") /\ BlockedBy(1, Ticker)
  /\ Holds(Ticker, "qm.mu")
  /\ BlockedBy(2, 1)

\* the PUBLISH packets of the catalogue that decode and whose topic name
\* ValidateTopicName refuses
BadTopicPublishes ==
  {raw \in FramedInputs :
     /\ TypeOf(raw) = 3
     /\ Packet(raw).kind = "pkt"
     /\ ValidateTopicName(Packet(raw).Publish.Topic) # "nil"}

\* C33: a PUBLISH read on an established connection whose topic name is
\* invalid, such as one with an empty level ("a/"), closes the connection;
\* the message is delivered to nobody, is not stored as retained, and gets no
\* PUBACK and no PUBREC.
C33_BadTopicCloses ==
  [][\A k \in Conns : \A raw \in BadTopicPublishes :
       (ServedStep(k) /\ ev'.raw = raw) =>
         /\ ~Open(k)'
         /\ retainedMsgs' = retainedMsgs
         /\ \A i \in 1..Len(written') : TypeOf(written'[i].pkt) \notin {3, 4, 5}]_vars

\* C34: a PUBACK, PUBREC or PUBCOMP whose low nibble is not 0000, and a PUBREL
\* whose low nibble is not 0010, is rejected by the decoder; it never reaches
\* the QoS manager: the step that reads it is the decoder's refusal, which
\* ends the connection, and no PUBLISH, PUBREL or PUBCOMP is written for it.
C34_FlaggedAcksRejected ==
  [][\A raw \in FlaggedAcks :
       (ev'.op = "packet" /\ ev'.raw = raw /\ ev'.was = "established") =>
         /\ Packet(raw).kind = "err"
         /\ pc'[ev'.conn] = "closed"
         /\ \A i \in 1..Len(written') : TypeOf(written'[i].pkt) \notin {3, 6, 7}]_vars

\* the last step read a CONNECT on a connection that was established
SecondConnect(k) ==
  /\ ev.op = "packet" /\ ev.conn = k /\ ev.was = "established"
  /\ TypeOf(ev.raw) * 16 = CONNECT

\* C35: a CONNECT read on an established connection closes the connection;
\* the registry keeps exactly the sessions it had, under the client ids it
\* had them, and no session is left waiting to be stored.
C35_SecondConnectCloses ==
  [][\A k \in Conns :
       SecondConnect(k)' =>
         /\ pc'[k] = "closed"
         /\ session' = session
         /\ brokerSession'[k] = Nil]_vars

\* a CONNECT for client "a" was read on the established connection of another
\* client id, whose session is still in the registry
C35_Witness ==
  \E k \in Conns :
    /\ SecondConnect(k)
    /\ ev.raw = ConnectA1
    /\ clientID[k] # IdA
    /\ clientID[k] \in DOMAIN session
    /\ pc[k] = "closed"

\* the packet identifier of an acknowledgement, 0 when raw is none
AckID(raw) ==
  IF Packet(raw).kind = "pkt" /\ TypeOf(raw) \in {4, 5, 6, 7} THEN Packet(raw).PacketID ELSE 0

\* C36: inbound and outbound QoS 2 flows of one client that use the same
\* packet id are kept apart.  On an established connection k of client c:
\* a QoS 2 PUBLISH(p) read while no inbound flow p is open is stored with its
\* own topic and payload; a PUBREL(p) read while no inbound flow p is open
\* publishes nothing; a PUBCOMP(p) read while an inbound flow p waits for its
\* PUBREL leaves that message stored.
C36_FlowsKeptApart ==
  [][\A k \in Conns : \A raw \in FramedInputs :
       (ServedStep(k) /\ ev'.raw = raw /\ pc'[k] = "established") =>
         /\ (IsQoS2Publish(raw) /\ Packet(raw).Publish.PacketID \notin DOMAIN inbound[k]) =>
              LET key == <<clientID[k], Packet(raw).Publish.PacketID>>
              IN /\ key \in DOMAIN qos2Received'
                 /\ qos2Received'[key].Topic = Packet(raw).Publish.Topic
                 /\ qos2Received'[key].Payload = Packet(raw).Publish.Payload
         /\ (TypeOf(raw) = 6 /\ AckID(raw) \notin DOMAIN inbound[k]) => published' = <<>>
         /\ (TypeOf(raw) = 7 /\ AckID(raw) \in DOMAIN inbound[k]) =>
              LET key3 == <<clientID[k], AckID(raw)>>
              IN key3 \in DOMAIN qos2Received => key3 \in DOMAIN qos2Received']_vars

\* the pending entries of the table t that were sent on connection k
SentOn(t, k) == {key \in DOMAIN t : t[key].Conn = k}

\* C37: when an established connection k ends, the subscriptions held for
\* the session of another connection and the pending QoS 1 and QoS 2 entries
\* of messages sent on another connection stay as they are, also when that
\* other connection is one of the same client id.
C37_CleanupOwnState ==
  [][\A k \in Conns : \A j \in Conns \ {k} :
       Departs(k) =>
         /\ \A e \in Entries(trie) : e[3].Conn = j => e \in Entries(trie')
         /\ \A key \in SentOn(pendingQoS1, j) :
              key \in DOMAIN pendingQoS1' /\ pendingQoS1'[key] = pendingQoS1[key]
         /\ \A key2 \in SentOn(pendingQoS2, j) :
              key2 \in DOMAIN pendingQoS2' /\ pendingQoS2'[key2] = pendingQoS2[key2]]_vars

\* C38: while the process runs, currentConnections is the number of
\* connections that were admitted and whose handler has not returned; it is
\* never negative; and a step that refuses a connection leaves it as it was.
C38_CounterIsServing ==
  ~crashed =>
    /\ currentConnections = Cardinality(Serving)
    /\ currentConnections >= 0

\* the UNSUBSCRIBE packets of the catalogue
UnsubscribeRequests == {raw \in FramedInputs : TypeOf(raw) = 10 /\ Packet(raw).kind = "pkt"}

\* the trie nodes of the filters an UNSUBSCRIBE names
NamedNodes(raw) ==
  {Split(Packet(raw).TopicFilters[i]) : i \in 1..Len(Packet(raw).TopicFilters)}

\* C40: an UNSUBSCRIBE of client c on connection k is answered, whether or
\* not c was subscribed, by one UNSUBACK with the request's packet id, to k;
\* the subscriptions afterwards are those before but for c's own to the
\* filters named: c's other subscriptions and every other client's stay.  A
\* later PUBLISH at QoS 0 is written to each connection once for each of its
\* subscriptions whose filter matches the topic, and to no other.
C40_UnsubscribeOnly ==
  [][\A k \in Conns :
       /\ \A raw \in UnsubscribeRequests :
            (ServedStep(k) /\ ev'.raw = raw) =>
              /\ written' = <<[conn |-> k,
                               pkt |-> <<UNSUBACK, 2, Packet(raw).PacketID \div 256,
                                         Packet(raw).PacketID % 256>>]>>
              /\ pc'[k] = "established"
              /\ Entries(trie') =
                   {e \in Entries(trie) :
                      ~(e[2] = clientID[k] /\ e[1] \in NamedNodes(raw))}
       /\ (ServedStep(k) /\ ev'.raw = PlainQoS0) =>
            /\ \A i \in 1..Len(written') : TypeOf(written'[i].pkt) = 3
            /\ \A j \in Conns :
                 Cardinality({i \in 1..Len(written') : written'[i].conn = j}) =
                   Cardinality({e \in Entries(trie) :
                                  /\ e[3].Conn = j
                                  /\ LevelsMatch(e[1], Split(TopicT))})]_vars

\* client a, who subscribes to "#", has unsubscribed from "a" and is answered
\* UNSUBACK 2; client b's subscription to "a" is there
C40_Witness ==
  /\ ev.op = "packet" /\ ev.conn = 1 /\ ev.raw = MkUnsubscribe(2, TopicT)
  /\ written = <<[conn |-> 1, pkt |-> <<UNSUBACK, 2, 0, 2>>]>>
  /\ <<TopicT>> \in DOMAIN trie /\ DOMAIN trie[<<TopicT>>] = {IdB}
  /\ <<FilterAll>> \in DOMAIN trie /\ IdA \in DOMAIN trie[<<FilterAll>>]

====
